---- MODULE Spec2Model ----
(***************************************************************************)
(* niftty: tokenize() (src/src/tokenize.ts) and the streaming window of    *)
(* niftty() (src/src/render.ts).                                           *)
(*                                                                         *)
(* A string is a sequence of one-character strings; "\n" is the character  *)
(* NL.  A JavaScript array is a sequence whose position k holds the        *)
(* element of index k-1, so that lineInfos[0], the hole the code never     *)
(* fills, is position 1.                                                   *)
(***************************************************************************)
EXTENDS Integers, Sequences, FiniteSets, TLC

VARIABLES
    pc,                 \* position inside tokenize(): "idle", "prep", ..., "done"
    code,               \* Options.code
    diffWith,           \* Options.diffWith, or Undefined
    streaming,          \* Options.streaming
    collapseUnchanged,  \* Options.collapseUnchanged
    grain,              \* how the highlighter cuts a line into tokens
    changes,            \* the hunks of diffLines, after the streaming prep
    upcomingLines,      \* the array upcomingLines
    hunks,              \* the array `changes` as diffLines returned it (line 371)
    lineInfos,          \* the array lineInfos
    unifiedLineNumber,
    oldLineNumber,
    newLineNumber,
    built,              \* lineInfos as the line record builder and overlay left it
    items,              \* TokenizedCode.items
    currentLineIndex,   \* TokenizedCode.currentLineIndex, or NoIndex
    output              \* the string niftty() returns, once it has rendered

vars == <<pc, code, diffWith, streaming, collapseUnchanged, grain, changes,
          upcomingLines, hunks, lineInfos, unifiedLineNumber, oldLineNumber,
          newLineNumber, built, items, currentLineIndex, output>>

----------------------------------------------------------------------------
(* Strings *)

NL == "\n"
SP == " "

\* `undefined` for an optional string (Options.diffWith)
Undefined == <<"undefined">>

\* `undefined` for an optional line number (LineInfo.oldLineNumber, ...)
Undef == 0

\* `undefined` for TokenizedCode.currentLineIndex
NoIndex == -1

Max(a, b) == IF a >= b THEN a ELSE b
Min(a, b) == IF a <= b THEN a ELSE b

\* s.endsWith("\n")
EndsWithNL(s) == Len(s) > 0 /\ s[Len(s)] = NL

\* s.indexOf("\n"), 0-based, -1 when absent
RECURSIVE IndexOfNLFrom(_, _)
IndexOfNLFrom(s, i) ==
    IF i > Len(s) THEN -1
    ELSE IF s[i] = NL THEN i - 1
    ELSE IndexOfNLFrom(s, i + 1)

IndexOfNL(s) == IndexOfNLFrom(s, 1)

\* s.substring(a, b), 0-based, b exclusive
Substring(s, a, b) == SubSeq(s, a + 1, b)

\* s.substring(a)
SubstringFrom(s, a) == SubSeq(s, a + 1, Len(s))

\* s.replace(/\n$/, "")
StripNL(s) == IF EndsWithNL(s) THEN SubSeq(s, 1, Len(s) - 1) ELSE s

\* s.startsWith(p)
StartsWith(s, p) == Len(p) <= Len(s) /\ SubSeq(s, 1, Len(p)) = p

\* s.split(/\n/g): always at least one piece
RECURSIVE Split(_)
Split(s) ==
    LET k == IndexOfNL(s)
    IN  IF k < 0 THEN <<s>>
        ELSE <<Substring(s, 0, k)>> \o Split(SubstringFrom(s, k + 1))

\* lines.join("\n")
RECURSIVE Join(_)
Join(lines) ==
    IF Len(lines) = 0 THEN <<>>
    ELSE IF Len(lines) = 1 THEN lines[1]
    ELSE lines[1] \o <<NL>> \o Join(Tail(lines))

\* the concatenation of a sequence of strings
RECURSIVE Concat(_)
Concat(ss) == IF Len(ss) = 0 THEN <<>> ELSE Head(ss) \o Concat(Tail(ss))

\* arr.slice(a, b) of an array
Slice(arr, a, b) == SubSeq(arr, a + 1, Min(b, Len(arr)))

----------------------------------------------------------------------------
(* The diff primitives of the "diff" package (diffLines, diffWordsWithSpace).*)
(* Both cut their inputs into tokens and return an edit script of minimal  *)
(* length over the tokens, runs of tokens of one kind merged into one      *)
(* change, the removed change of a replaced run before its added change.   *)
(* Which minimal script is returned is left open: every one is possible.   *)

\* the line tokens of diffLines: each line with its newline, the last
\* line without one when the text does not end with a newline
LineTokens(s) ==
    LET pieces == Split(s)
        k == Len(pieces)
        whole == [i \in 1..(k - 1) |-> pieces[i] \o <<NL>>]
    IN  IF Len(pieces[k]) = 0 THEN whole ELSE whole \o <<pieces[k]>>

\* the class of a character for the tokens of diffWordsWithSpace
CharClass(c) == IF c = NL THEN "nl" ELSE IF c = SP THEN "space" ELSE "word"

\* the word tokens of diffWordsWithSpace: a newline, a run of word
\* characters, a run of spaces
RECURSIVE WordTokens(_)
WordTokens(s) ==
    IF Len(s) = 0 THEN <<>>
    ELSE LET rest == WordTokens(Tail(s))
         IN  IF /\ Len(rest) > 0
                /\ s[1] # NL
                /\ CharClass(rest[1][1]) = CharClass(s[1])
             THEN <<(<<s[1]>> \o rest[1])>> \o Tail(rest)
             ELSE <<(<<s[1]>>)>> \o rest

\* one row of the table of longest-common-subsequence lengths: the entries
\* j..Len(B)+1 of the row of token a, from the row below it
RECURSIVE LcsRowFrom(_, _, _, _)
LcsRowFrom(a, B, below, j) ==
    IF j = Len(B) + 1 THEN <<0>>
    ELSE LET rest == LcsRowFrom(a, B, below, j + 1)
         IN  <<(IF a = B[j] THEN below[j + 1] + 1 ELSE Max(below[j], rest[1]))>>
             \o rest

\* rows i..Len(A)+1 of the table: T[i][j] is the length of a longest common
\* subsequence of A[i..] and B[j..]
RECURSIVE LcsRows(_, _, _)
LcsRows(A, B, i) ==
    IF i = Len(A) + 1 THEN <<[j \in 1..(Len(B) + 1) |-> 0]>>
    ELSE LET rest == LcsRows(A, B, i + 1)
         IN  <<LcsRowFrom(A[i], B, rest[1], 1)>> \o rest

\* the alignments of A[i..] and B[j..] that keep a longest common
\* subsequence: sequences of matched index pairs
RECURSIVE Alignments(_, _, _, _, _)
Alignments(A, B, T, i, j) ==
    IF T[i][j] = 0 THEN {<<>>}
    ELSE LET firsts == {pq \in (i..Len(A)) \X (j..Len(B)) :
                            /\ A[pq[1]] = B[pq[2]]
                            /\ T[pq[1] + 1][pq[2] + 1] + 1 = T[i][j]}
         IN  UNION {{<<pq>> \o s : s \in Alignments(A, B, T, pq[1] + 1, pq[2] + 1)}
                        : pq \in firsts}

Change(added, removed, toks) ==
    [added |-> added, removed |-> removed, count |-> Len(toks),
     value |-> Concat(toks)]

\* the removed change, then the added change, of the unmatched tokens
\* A[i..p-1] and B[j..q-1]
GapChanges(A, B, i, p, j, q) ==
    (IF p > i THEN <<Change(FALSE, TRUE, SubSeq(A, i, p - 1))>> ELSE <<>>)
    \o (IF q > j THEN <<Change(TRUE, FALSE, SubSeq(B, j, q - 1))>> ELSE <<>>)

\* the changes of an alignment, from its k-th matched pair on; eq is the
\* run of matched tokens not yet closed
RECURSIVE ChangesOf(_, _, _, _, _, _, _)
ChangesOf(A, B, al, k, i, j, eq) ==
    LET close == IF Len(eq) > 0 THEN <<Change(FALSE, FALSE, eq)>> ELSE <<>>
    IN  IF k > Len(al)
        THEN IF i > Len(A) /\ j > Len(B) THEN close
             ELSE close \o GapChanges(A, B, i, Len(A) + 1, j, Len(B) + 1)
        ELSE LET p == al[k][1]
                 q == al[k][2]
             IN  IF p = i /\ q = j
                 THEN ChangesOf(A, B, al, k + 1, p + 1, q + 1, Append(eq, B[q]))
                 ELSE close \o GapChanges(A, B, i, p, j, q)
                      \o ChangesOf(A, B, al, k + 1, p + 1, q + 1, <<B[q]>>)

\* the edit scripts the diff of two token sequences can return
DiffTokens(A, B) ==
    LET T == LcsRows(A, B, 1)
    IN  {ChangesOf(A, B, al, 1, 1, 1, <<>>) : al \in Alignments(A, B, T, 1, 1)}

\* diffLines(a, b)
diffLines(a, b) == DiffTokens(LineTokens(a), LineTokens(b))

\* diffWordsWithSpace(a, b)
diffWordsWithSpace(a, b) == DiffTokens(WordTokens(a), WordTokens(b))

----------------------------------------------------------------------------
(* Options and the values tokenize() derives from them (lines 352-396) *)

\* the truthiness of Options.streaming (boolean | number)
IsTruthyStreaming(v) == IF v.kind = "number" THEN v.n # 0 ELSE v.on

DEFAULT_COLLAPSE_PADDING == 3

\* DEFAULT_COLLAPSE_SEPARATOR(n): the text "--- n unchanged ---"
DEFAULT_COLLAPSE_SEPARATOR(n) == <<"--- ", n, " unchanged ---">>

\* a separator function supplied by the caller, applied to n
CallerSeparator(n) == <<"caller(", n, ")">>

isDiff == diffWith # Undefined

isStreaming == IsTruthyStreaming(streaming)

\* diffWith || ""
fromRaw == IF diffWith = Undefined THEN <<>> ELSE diffWith

fromNewlineEOF == EndsWithNL(fromRaw)

toNewlineEOF == EndsWithNL(code)

\* a variant of `from` that leaves out appending the missing newline
fromUnterminated == fromRaw

from == IF fromNewlineEOF THEN fromRaw ELSE fromRaw \o <<NL>>

to == IF toNewlineEOF THEN code ELSE code \o <<NL>>

fromLines == Split(from)

toLines == Split(to)

fromLinesToDiff == IF isStreaming THEN Len(toLines) + 3 ELSE Len(fromLines)

\* a variant of the collapse guard that leaves out `!streaming`
HasCollapseConfigStreaming ==
    /\ (collapseUnchanged.kind = "object" \/ collapseUnchanged.on)
    /\ isDiff

\* collapseConfig is set (collapseUnchanged && isDiff && !streaming)
HasCollapseConfig ==
    /\ (collapseUnchanged.kind = "object" \/ collapseUnchanged.on)
    /\ isDiff
    /\ ~isStreaming

\* collapseConfig.padding
CollapsePadding ==
    IF collapseUnchanged.kind = "boolean" \/ ~collapseUnchanged.hasPadding
    THEN DEFAULT_COLLAPSE_PADDING
    ELSE collapseUnchanged.padding

\* collapseConfig.separator(n)
CollapseSeparator(n) ==
    IF collapseUnchanged.kind = "boolean" \/ ~collapseUnchanged.hasSeparator
    THEN DEFAULT_COLLAPSE_SEPARATOR(n)
    ELSE CallerSeparator(n)

----------------------------------------------------------------------------
(* Arrays of LineInfo *)

\* a LineInfo; Undef, {} , <<>> and "" stand for an absent field
LineInfo(type, old, new) ==
    [type |-> type, oldLineNumber |-> old, newLineNumber |-> new,
     marks |-> {}, tokens |-> <<>>, specialText |-> "", collapse |-> <<>>]

\* what reading a hole of the array gives where the code reads
\* `lineInfos[i] || {}`: an object with no field
Hole == LineInfo("undefined", Undef, Undef)

IsHole(li) == li.type = "undefined"

\* arr[idx], undefined (Hole) outside the array
At(arr, idx) == IF idx >= 0 /\ idx < Len(arr) THEN arr[idx + 1] ELSE Hole

\* arr[idx] = v, the array growing with holes up to idx
SetAt(arr, idx, v) ==
    IF idx < Len(arr) THEN [arr EXCEPT ![idx + 1] = v]
    ELSE arr \o [k \in 1..(idx - Len(arr)) |-> Hole] \o <<v>>

\* arr[idx] ||= v
EnsureAt(arr, idx, v) == IF IsHole(At(arr, idx)) THEN SetAt(arr, idx, v) ELSE arr

----------------------------------------------------------------------------
(* Streaming prep (lines 398-419) *)

\* the hunks and the upcomingLines array after the streaming prep, for the
\* hunks ch that diffLines returned
\* a variant of the streaming prep that splices out the removed hunk and the
\* added hunk after it
StreamingPrepDropPair(ch) ==
    LET n == Len(ch)
        rest == Slice(fromLines, fromLinesToDiff, Len(fromLines))
    IN  IF ~isStreaming THEN [changes |-> ch, upcomingLines |-> <<>>]
        ELSE IF n >= 2 /\ ch[n].added /\ ch[n - 1].removed
        THEN [changes |-> SubSeq(ch, 1, n - 2),
              upcomingLines |-> <<ch[n - 1].value>> \o rest]
        ELSE IF n >= 1 /\ ch[n].removed
        THEN [changes |-> SubSeq(ch, 1, n - 1),
              upcomingLines |-> <<ch[n].value>> \o rest]
        ELSE [changes |-> ch, upcomingLines |-> rest]

\* a variant of the streaming prep that leaves the removed hunk of a
\* trailing pair in the hunks
StreamingPrepKeepPair(ch) ==
    LET n == Len(ch)
        rest == Slice(fromLines, fromLinesToDiff, Len(fromLines))
    IN  IF ~isStreaming THEN [changes |-> ch, upcomingLines |-> <<>>]
        ELSE IF n >= 2 /\ ch[n].added /\ ch[n - 1].removed
        THEN [changes |-> ch, upcomingLines |-> <<ch[n - 1].value>> \o rest]
        ELSE IF n >= 1 /\ ch[n].removed
        THEN [changes |-> SubSeq(ch, 1, n - 1),
              upcomingLines |-> <<ch[n].value>> \o rest]
        ELSE [changes |-> ch, upcomingLines |-> rest]

\* a variant of the streaming prep that prepends the text of the removed
\* hunk of a trailing pair as it is, whatever it starts with
StreamingPrepNoStrip(ch) ==
    LET n == Len(ch)
        rest == Slice(fromLines, fromLinesToDiff, Len(fromLines))
    IN  IF ~isStreaming THEN [changes |-> ch, upcomingLines |-> <<>>]
        ELSE IF n >= 2 /\ ch[n].added /\ ch[n - 1].removed
        THEN [changes |-> SubSeq(ch, 1, n - 2) \o <<ch[n]>>,
              upcomingLines |-> <<ch[n - 1].value>> \o rest]
        ELSE IF n >= 1 /\ ch[n].removed
        THEN [changes |-> SubSeq(ch, 1, n - 1),
              upcomingLines |-> <<ch[n].value>> \o rest]
        ELSE [changes |-> ch, upcomingLines |-> rest]

\* a variant of the streaming prep that leaves a trailing removed hunk in
\* the hunks
StreamingPrepKeepLone(ch) ==
    LET n == Len(ch)
        rest == Slice(fromLines, fromLinesToDiff, Len(fromLines))
    IN  IF ~isStreaming THEN [changes |-> ch, upcomingLines |-> <<>>]
        ELSE IF n >= 2 /\ ch[n].added /\ ch[n - 1].removed
        THEN LET added == ch[n]
                 removed == ch[n - 1]
                 value == IF StartsWith(removed.value, StripNL(added.value))
                          THEN SubstringFrom(removed.value,
                                             IndexOfNL(removed.value) + 1)
                          ELSE removed.value
             IN  [changes |-> SubSeq(ch, 1, n - 2) \o <<added>>,
                  upcomingLines |-> <<value>> \o rest]
        ELSE IF n >= 1 /\ ch[n].removed
        THEN [changes |-> ch, upcomingLines |-> <<ch[n].value>> \o rest]
        ELSE [changes |-> ch, upcomingLines |-> rest]

StreamingPrep(ch) ==
    LET n == Len(ch)
        rest == Slice(fromLines, fromLinesToDiff, Len(fromLines))
    IN  IF ~isStreaming THEN [changes |-> ch, upcomingLines |-> <<>>]
        ELSE IF n >= 2 /\ ch[n].added /\ ch[n - 1].removed
        THEN LET added == ch[n]
                 removed == ch[n - 1]
                 value == IF StartsWith(removed.value, StripNL(added.value))
                          THEN SubstringFrom(removed.value,
                                             IndexOfNL(removed.value) + 1)
                          ELSE removed.value
             IN  [changes |-> SubSeq(ch, 1, n - 2) \o <<added>>,
                  upcomingLines |-> <<value>> \o rest]
        ELSE IF n >= 1 /\ ch[n].removed
        THEN [changes |-> SubSeq(ch, 1, n - 1),
              upcomingLines |-> <<ch[n].value>> \o rest]
        ELSE [changes |-> ch, upcomingLines |-> rest]

----------------------------------------------------------------------------
(* Line record builder (lines 421-536) *)

\* a variant of MarkColumns that advances the column before marking it
MarkColumnsLate(li, col, n) == [li EXCEPT !.marks = @ \cup ((col + 1)..(col + n))]

\* a variant of MarkColumns whose loop stops one column early
MarkColumnsShort(li, col, n) == [li EXCEPT !.marks = @ \cup (col..(col + n - 2))]

\* marks[col] = true for the n columns from col on
MarkColumns(li, col, n) == [li EXCEPT !.marks = @ \cup (col..(col + n - 1))]

\* the body of `while (true)` for one change of the word diff, repeated
\* while the change crosses a line boundary (lines 443-493); st holds the
\* builder's variables, kind is "removed", "added" or "equal"
RECURSIVE InnerChange(_, _, _)
InnerChange(st, kind, value) ==
    LET li1 == EnsureAt(st.lineInfos, st.fromUnifiedLine,
                        LineInfo("removed", st.oldLineNumber, Undef))
        li2 == EnsureAt(li1, st.toUnifiedLine,
                        LineInfo("added", Undef, st.newLineNumber))
        newlineIndex == IndexOfNL(value)
        len == IF newlineIndex >= 0 THEN newlineIndex ELSE Len(value)
        li3 == IF kind = "removed" /\ len > 0
               THEN SetAt(li2, st.fromUnifiedLine,
                          MarkColumns(At(li2, st.fromUnifiedLine), st.fromCol, len))
               ELSE IF kind = "added" /\ len > 0
               THEN SetAt(li2, st.toUnifiedLine,
                          MarkColumns(At(li2, st.toUnifiedLine), st.toCol, len))
               ELSE li2
        st1 == [st EXCEPT
                  !.lineInfos = li3,
                  !.fromCol = IF kind # "added" THEN @ + len ELSE @,
                  !.toCol = IF kind # "removed" THEN @ + len ELSE @]
    IN  IF newlineIndex < 0 THEN st1
        ELSE InnerChange(
                 [st1 EXCEPT
                    !.fromUnifiedLine = IF kind # "added" THEN @ + 1 ELSE @,
                    !.oldLineNumber = IF kind # "added" THEN @ + 1 ELSE @,
                    !.toUnifiedLine = IF kind # "removed" THEN @ + 1 ELSE @,
                    !.newLineNumber = IF kind # "removed" THEN @ + 1 ELSE @,
                    !.unifiedLineNumber = @ + 1,
                    !.fromCol = IF kind # "added" THEN 0 ELSE @,
                    !.toCol = IF kind # "removed" THEN 0 ELSE @],
                 kind, SubstringFrom(value, newlineIndex + 1))

KindOf(change) ==
    IF change.removed THEN "removed" ELSE IF change.added THEN "added" ELSE "equal"

\* `for (let innerChange of innerChanges)` (lines 442-494)
RECURSIVE InnerChanges(_, _, _)
InnerChanges(st, innerChanges, k) ==
    IF k > Len(innerChanges) THEN st
    ELSE InnerChanges(InnerChange(st, KindOf(innerChanges[k]), innerChanges[k].value),
                      innerChanges, k + 1)

\* a variant of the modified block that leaves out `++oldLineNumber` after
\* the word diff
ModifiedBlockNoAdvance(st, change, innerChanges) ==
    LET st0 == [st EXCEPT !.fromUnifiedLine = st.unifiedLineNumber,
                          !.fromCol = 0,
                          !.toUnifiedLine = st.unifiedLineNumber + change.count,
                          !.toCol = 0]
        st1 == InnerChanges(st0, innerChanges, 1)
    IN  [st1 EXCEPT !.unifiedLineNumber = st1.toUnifiedLine + 1,
                    !.newLineNumber = @ + 1]

\* a variant of the modified block that puts the first added line right
\* after the first removed line, whatever the number of removed lines
ModifiedBlockOverlap(st, change, innerChanges) ==
    LET st0 == [st EXCEPT !.fromUnifiedLine = st.unifiedLineNumber,
                          !.fromCol = 0,
                          !.toUnifiedLine = st.unifiedLineNumber + 1,
                          !.toCol = 0]
        st1 == InnerChanges(st0, innerChanges, 1)
    IN  [st1 EXCEPT !.unifiedLineNumber = st1.toUnifiedLine + 1,
                    !.oldLineNumber = @ + 1,
                    !.newLineNumber = @ + 1]

\* a variant of the modified block that leaves the two column cursors
\* where the block before left them
ModifiedBlockStaleCols(st, change, innerChanges) ==
    LET st0 == [st EXCEPT !.fromUnifiedLine = st.unifiedLineNumber,
                          !.toUnifiedLine = st.unifiedLineNumber + change.count]
        st1 == InnerChanges(st0, innerChanges, 1)
    IN  [st1 EXCEPT !.unifiedLineNumber = st1.toUnifiedLine + 1,
                    !.oldLineNumber = @ + 1,
                    !.newLineNumber = @ + 1]

\* a modified block (lines 431-499), for one result of the word diff
ModifiedBlock(st, change, innerChanges) ==
    LET st0 == [st EXCEPT !.fromUnifiedLine = st.unifiedLineNumber,
                          !.fromCol = 0,
                          !.toUnifiedLine = st.unifiedLineNumber + change.count,
                          !.toCol = 0]
        st1 == InnerChanges(st0, innerChanges, 1)
    IN  [st1 EXCEPT !.unifiedLineNumber = st1.toUnifiedLine + 1,
                    !.oldLineNumber = @ + 1,
                    !.newLineNumber = @ + 1]

\* a hunk of added or of removed lines (lines 500-514): its lines l..count-1
RECURSIVE PlainChange(_, _, _)
PlainChange(st, change, l) ==
    IF l >= change.count THEN st
    ELSE PlainChange(
             [st EXCEPT
                !.lineInfos = SetAt(@, st.unifiedLineNumber,
                    LineInfo(IF change.added THEN "added" ELSE "removed",
                             IF change.removed THEN st.oldLineNumber ELSE Undef,
                             IF change.added THEN st.newLineNumber ELSE Undef)),
                !.unifiedLineNumber = @ + 1,
                !.newLineNumber = IF change.added THEN @ + 1 ELSE @,
                !.oldLineNumber = IF ~change.added /\ change.removed THEN @ + 1 ELSE @],
             change, l + 1)

\* a hunk of unchanged lines (lines 515-525): its lines l..count-1
RECURSIVE EqualChange(_, _, _)
EqualChange(st, change, l) ==
    IF l >= change.count THEN st
    ELSE EqualChange(
             [st EXCEPT
                !.lineInfos = SetAt(@, st.unifiedLineNumber,
                    LineInfo("default", st.oldLineNumber, st.newLineNumber)),
                !.oldLineNumber = @ + 1,
                !.newLineNumber = @ + 1,
                !.unifiedLineNumber = @ + 1],
             change, l + 1)

\* `for (let i = 0; i < changes.length; i++)` from change i on (0-based):
\* the set of outcomes, one for each choice of the word diffs
RECURSIVE DiffLineInfos(_, _, _)
DiffLineInfos(st, chs, i) ==
    IF i >= Len(chs) THEN {st}
    ELSE LET change == chs[i + 1]
             hasNext == i + 1 < Len(chs)
         IN  IF change.removed /\ hasNext /\ chs[i + 2].added
             THEN UNION {DiffLineInfos(ModifiedBlock(st, change, inner), chs, i + 2)
                           : inner \in diffWordsWithSpace(StripNL(change.value),
                                                          StripNL(chs[i + 2].value))}
             ELSE IF change.added \/ change.removed
             THEN DiffLineInfos(PlainChange(st, change, 0), chs, i + 1)
             ELSE DiffLineInfos(EqualChange(st, change, 0), chs, i + 1)

\* the non-diff branch (lines 528-536)
PlainLineInfos(st) ==
    [st EXCEPT
       !.lineInfos = <<Hole>> \o [l \in 1..Len(toLines) |-> LineInfo("default", Undef, l)],
       !.newLineNumber = Len(toLines) + 1,
       !.unifiedLineNumber = Len(toLines) + 1]

\* a variant of the builder's start whose counters are not set to 1: they
\* hold what the call before left in them
BuilderStartStale ==
    [lineInfos |-> <<>>, unifiedLineNumber |-> unifiedLineNumber,
     oldLineNumber |-> oldLineNumber, newLineNumber |-> newLineNumber,
     fromUnifiedLine |-> 0, toUnifiedLine |-> 0, fromCol |-> 0, toCol |-> 0]

\* the builder's variables at line 425
BuilderStart ==
    [lineInfos |-> <<>>, unifiedLineNumber |-> 1, oldLineNumber |-> 1,
     newLineNumber |-> 1, fromUnifiedLine |-> 0, toUnifiedLine |-> 0,
     fromCol |-> 0, toCol |-> 0]

\* the outcomes of the line record builder for the hunks chs
LineRecords(chs) ==
    IF isDiff THEN DiffLineInfos(BuilderStart, chs, 0)
    ELSE {PlainLineInfos(BuilderStart)}

----------------------------------------------------------------------------
(* Streaming overlay (lines 538-554) *)

\* `for (let l = 1; l < upcomingLines.length; l++)` from l on
RECURSIVE UpcomingRecords(_, _)
UpcomingRecords(st, l) ==
    IF l >= Len(upcomingLines) THEN st
    ELSE UpcomingRecords(
             [st EXCEPT
                !.lineInfos = SetAt(@, st.unifiedLineNumber,
                                    LineInfo("upcoming", st.oldLineNumber, Undef)),
                !.unifiedLineNumber = @ + 1,
                !.oldLineNumber = @ + 1],
             l + 1)

\* the overlay reads lineInfos[currentLineNumber] without a check: the
\* call throws a TypeError when there is no such record
OverlayThrows(st) == IsHole(At(st.lineInfos, st.unifiedLineNumber - 1))

\* a variant of the overlay that retypes the last record and leaves its
\* oldLineNumber as the builder set it
StreamingOverlayTypeOnly(st) ==
    LET currentLineNumber == st.unifiedLineNumber - 1
        cur == At(st.lineInfos, currentLineNumber)
        st1 == [st EXCEPT
                  !.lineInfos = SetAt(@, currentLineNumber,
                                      [cur EXCEPT !.type = "current"]),
                  !.oldLineNumber = @ + 1]
    IN  UpcomingRecords(st1, 1)

StreamingOverlay(st) ==
    LET currentLineNumber == st.unifiedLineNumber - 1
        cur == At(st.lineInfos, currentLineNumber)
        st1 == [st EXCEPT
                  !.lineInfos = SetAt(@, currentLineNumber,
                                      [cur EXCEPT !.type = "current",
                                                  !.oldLineNumber = st.oldLineNumber]),
                  !.oldLineNumber = @ + 1]
    IN  UpcomingRecords(st1, 1)

----------------------------------------------------------------------------
(* Collapse reducer (lines 556-584) *)

\* lineInfos.findIndex((l, i) => i > pos && l?.type === "default")
RECURSIVE FindDefaultAfter(_, _)
FindDefaultAfter(arr, pos) ==
    LET i == Max(pos + 1, 0)
    IN  IF i >= Len(arr) THEN -1
        ELSE IF At(arr, i).type = "default" THEN i
        ELSE FindDefaultAfter(arr, i)

\* lineInfos.findIndex((l, i) => i > start && l?.type !== "default")
RECURSIVE FindOtherAfter(_, _)
FindOtherAfter(arr, start) ==
    LET i == Max(start + 1, 0)
    IN  IF i >= Len(arr) THEN -1
        ELSE IF At(arr, i).type # "default" THEN i
        ELSE FindOtherAfter(arr, i)

\* a variant of splice that removes one element more
SpliceOneMore(arr, at, n) ==
    SubSeq(arr, 1, Min(at, Len(arr))) \o SubSeq(arr, at + n + 2, Len(arr))

\* arr.splice(at, n)
Splice(arr, at, n) ==
    SubSeq(arr, 1, Min(at, Len(arr))) \o SubSeq(arr, at + n + 1, Len(arr))

\* variants of the collapse loop: "stale" leaves pos at the run's old end
\* after the splice, "lead" trims the leading edge of a run that begins at
\* line 1 too, "trail" trims the trailing edge of a run that reaches the end
RECURSIVE CollapseLoopVariant(_, _, _, _)
CollapseLoopVariant(arr, pos, padding, v) ==
    IF ~(pos < Len(arr)) THEN arr
    ELSE LET start0 == FindDefaultAfter(arr, pos)
             found == FindOtherAfter(arr, start0)
             end0 == IF found < 0 THEN Len(arr) ELSE found
             start == IF start0 # 1 \/ v = "lead" THEN start0 + padding ELSE start0
             end == IF end0 # Len(arr) \/ v = "trail" THEN end0 - padding ELSE end0
         IN  IF start0 < 0 THEN arr
             ELSE IF end <= start THEN CollapseLoopVariant(arr, end0, padding, v)
             ELSE CollapseLoopVariant(
                      Splice(SetAt(arr, start,
                                   [LineInfo("default", Undef, Undef)
                                      EXCEPT !.collapse = Slice(arr, start, end)]),
                             start + 1, end - start - 1),
                      IF v = "stale" THEN end0 ELSE start + 1, padding, v)

CollapseLoopStalePos(arr, pos, padding) == CollapseLoopVariant(arr, pos, padding, "stale")

CollapseLoopTrimLead(arr, pos, padding) == CollapseLoopVariant(arr, pos, padding, "lead")

CollapseLoopTrimTrail(arr, pos, padding) == CollapseLoopVariant(arr, pos, padding, "trail")

\* `while (pos < lineInfos.length)` (lines 559-583)
RECURSIVE CollapseLoop(_, _, _)
CollapseLoop(arr, pos, padding) ==
    IF ~(pos < Len(arr)) THEN arr
    ELSE LET start0 == FindDefaultAfter(arr, pos)
             found == FindOtherAfter(arr, start0)
             end0 == IF found < 0 THEN Len(arr) ELSE found
             start == IF start0 # 1 THEN start0 + padding ELSE start0
             end == IF end0 # Len(arr) THEN end0 - padding ELSE end0
         IN  IF start0 < 0 THEN arr
             ELSE IF end <= start THEN CollapseLoop(arr, end0, padding)
             ELSE CollapseLoop(
                      Splice(SetAt(arr, start,
                                   [LineInfo("default", Undef, Undef)
                                      EXCEPT !.collapse = Slice(arr, start, end)]),
                             start + 1, end - start - 1),
                      start + 1, padding)

CollapseReducer(arr) ==
    IF HasCollapseConfig THEN CollapseLoop(arr, -1, CollapsePadding) ELSE arr

----------------------------------------------------------------------------
(* EOF newline record (lines 586-596) *)

\* a variant of the EOF record with the two cases exchanged
EofRecordSwapped ==
    [LineInfo(IF toNewlineEOF THEN "removed" ELSE "added", Undef, Undef)
       EXCEPT !.specialText = IF toNewlineEOF
                              THEN "(removed newline at end of file)"
                              ELSE "(added newline at end of file)"]

EofRecord ==
    [LineInfo(IF toNewlineEOF THEN "added" ELSE "removed", Undef, Undef)
       EXCEPT !.specialText = IF toNewlineEOF
                              THEN "(added newline at end of file)"
                              ELSE "(removed newline at end of file)"]

\* lineInfos.push(...): the new element goes to index lineInfos.length
EofNewline(arr) ==
    IF fromNewlineEOF # toNewlineEOF THEN Append(arr, EofRecord) ELSE arr

----------------------------------------------------------------------------
(* Token assignment (lines 598-613) *)

\* the tokens the highlighter cuts one line into: one token for the line,
\* one for each word and run of spaces, one for each character, or (a
\* highlighter supplied by the caller) a token of no character and then
\* one for the line; the colour of a token is its rank in the line
LineTokensOf(line, g) ==
    LET parts == IF g = "line" THEN (IF Len(line) = 0 THEN <<>> ELSE <<line>>)
                 ELSE IF g = "word" THEN WordTokens(line)
                 ELSE IF g = "gap" THEN <<(<<>>), line>>
                 ELSE [k \in 1..Len(line) |-> <<line[k]>>]
    IN  [k \in 1..Len(parts) |-> [content |-> parts[k], color |-> k]]

\* highlighter.codeToTokens(text, ...).tokens: one token array per line
codeToTokens(text, g) ==
    LET lines == Split(text)
    IN  [i \in 1..Len(lines) |-> LineTokensOf(lines[i], g)]

\* tokens[idx] || []
TokensAt(tokens, idx) ==
    IF idx >= 0 /\ idx < Len(tokens) THEN tokens[idx + 1] ELSE <<>>

\* the body of the loop of lines 606-613 for one element of lineInfos
AssignOne(li, result, beforeResult) ==
    IF IsHole(li) THEN li
    ELSE [li EXCEPT !.tokens =
            IF li.type = "removed" \/ li.type = "upcoming"
            THEN TokensAt(beforeResult, li.oldLineNumber - 1)
            ELSE TokensAt(result, li.newLineNumber - 1)]

\* lines 599-613; `for (let i = 1; i < lineInfos.length; i++)`: index 0 is
\* not visited
AssignTokens(arr) ==
    LET result == codeToTokens(to, grain)
        beforeResult == IF isDiff THEN codeToTokens(from, grain) ELSE result
    IN  [k \in 1..Len(arr) |->
            IF k = 1 THEN arr[k] ELSE AssignOne(arr[k], result, beforeResult)]

----------------------------------------------------------------------------
(* Render item projection (lines 648-673, 686-743) *)

RenderToken(content, color, marked) ==
    [content |-> content, color |-> color, marked |-> marked]

\* a variant of MarkSpans that leaves out the test `c > spanStart`
RECURSIVE MarkSpansKeepEmpty(_, _, _, _, _, _)
MarkSpansKeepEmpty(t, marks, col, c, spanStart, inMark) ==
    IF c > Len(t.content) THEN <<>>
    ELSE LET isMarked == IF c < Len(t.content) THEN (col + c) \in marks ELSE ~inMark
         IN  IF isMarked # inMark \/ c = Len(t.content)
             THEN <<RenderToken(Substring(t.content, spanStart, c), t.color, inMark)>>
                  \o MarkSpansKeepEmpty(t, marks, col, c + 1, c, isMarked)
             ELSE MarkSpansKeepEmpty(t, marks, col, c + 1, spanStart, inMark)

\* `for (let c = 0; c <= t.content.length; c++)` from c on (lines 706-722)
RECURSIVE MarkSpans(_, _, _, _, _, _)
MarkSpans(t, marks, col, c, spanStart, inMark) ==
    IF c > Len(t.content) THEN <<>>
    ELSE LET isMarked == IF c < Len(t.content) THEN (col + c) \in marks ELSE ~inMark
         IN  IF isMarked # inMark \/ c = Len(t.content)
             THEN (IF c > spanStart
                   THEN <<RenderToken(Substring(t.content, spanStart, c), t.color, inMark)>>
                   ELSE <<>>)
                  \o MarkSpans(t, marks, col, c + 1, c, isMarked)
             ELSE MarkSpans(t, marks, col, c + 1, spanStart, inMark)

\* `for (let t of lineInfo.tokens || [])` from token k on (lines 694-725)
RECURSIVE ProjectTokens(_, _, _, _)
ProjectTokens(tokens, marks, k, col) ==
    IF k > Len(tokens) THEN <<>>
    ELSE LET t == tokens[k]
         IN  (IF marks = {} THEN <<RenderToken(t.content, t.color, FALSE)>>
              ELSE MarkSpans(t, marks, col, 0, 0, col \in marks))
             \o ProjectTokens(tokens, marks, k + 1, col + Len(t.content))

convertLineInfoToRenderLine(li) ==
    [type |-> li.type,
     tokens |-> ProjectTokens(li.tokens, li.marks, 1, 0),
     oldLineNumber |-> li.oldLineNumber,
     newLineNumber |-> li.newLineNumber,
     specialText |-> li.specialText]

\* the render item of one element of lineInfos (lines 653-668)
RenderItem(li) ==
    IF HasCollapseConfig /\ Len(li.collapse) > 0
    THEN [type |-> "collapsed",
          collapsedCount |-> Len(li.collapse),
          lines |-> [k \in 1..Len(li.collapse) |->
                        convertLineInfoToRenderLine(li.collapse[k])],
          separatorText |-> CollapseSeparator(Len(li.collapse))]
    ELSE convertLineInfoToRenderLine(li)

\* items, for the array lineInfos
RenderItems(arr) == [k \in 1..(Len(arr) - 1) |-> RenderItem(arr[k + 1])]

\* a variant of currentLineIndex taken after the push: items.length
CurrentLineIndexAfterPush(its) ==
    LET at == {k \in 1..Len(its) : its[k].type = "current"}
    IN  IF at = {} THEN NoIndex
        ELSE CHOOSE k \in at : \A j \in at : j <= k

\* currentLineIndex: the index of the last item of type `current`
CurrentLineIndex(its) ==
    LET at == {k \in 1..Len(its) : its[k].type = "current"}
    IN  IF at = {} THEN NoIndex
        ELSE (CHOOSE k \in at : \A j \in at : j <= k) - 1

----------------------------------------------------------------------------
(* niftty(), src/src/render.ts: the items rendered into a string.  The     *)
(* colours are left out, and so are the line numbers (Options.lineNumbers  *)
(* is undefined).                                                          *)

DEFAULT_STREAMING_WINDOW == 20

MaxOf(S) == CHOOSE m \in S : \A x \in S : x <= m

\* the length of a special text
SpecialLength(t) == IF t = "(added newline at end of file)" THEN 30 ELSE 32

\* TokenizedCode.maxCols (tokenize.ts, lines 373-378 and 595)
maxCols ==
    LET tl == toLines
        fl == fromLines
        m == MaxOf({1} \cup {Len(tl[k]) : k \in 1..Len(tl)}
                       \cup {Len(fl[k]) : k \in 1..Len(fl)}) + 1
    IN  IF fromNewlineEOF # toNewlineEOF
        THEN Max(m, SpecialLength(EofRecord.specialText) + 1)
        ELSE m

\* " ".repeat(Math.max(0, k))
Pad(k) == [i \in 1..Max(0, k) |-> SP]

\* the characters of a separator text and their number
SeparatorChars(sep) == <<sep[1], ToString(sep[2]), sep[3]>>

SeparatorLength(sep) ==
    (IF sep[1] = "--- " THEN 18 ELSE 8) + (IF sep[2] < 10 THEN 1 ELSE 2)

\* prefixAnnotation; ">" stands for the triangle that marks the current line
Annotation(type) ==
    IF ~isDiff THEN <<>>
    ELSE IF type = "added" THEN <<"+", SP>>
    ELSE IF type = "removed" THEN <<"-", SP>>
    ELSE IF type = "current" THEN <<">", SP>>
    ELSE <<SP, SP>>

\* what the loop of lines 36-130 pushes for one item, for the value cols
\* of maxCols: one line and "\n"
RenderedLine(item, cols) ==
    IF item.type = "collapsed"
    THEN <<SP, SP>> \o SeparatorChars(item.separatorText)
         \o Pad(cols - SeparatorLength(item.separatorText)) \o <<NL>>
    ELSE LET content == [k \in 1..Len(item.tokens) |-> item.tokens[k].content]
             body == IF item.type # "upcoming" /\ item.specialText # ""
                     THEN <<item.specialText>>
                     ELSE Concat(content)
             col == IF item.type # "upcoming" /\ item.specialText # ""
                    THEN SpecialLength(item.specialText)
                    ELSE Len(Concat(content))
         IN  <<SP>> \o Annotation(item.type) \o body \o Pad(cols - col) \o <<NL>>

RenderedItem(item) == RenderedLine(item, maxCols)

\* out.join("")
RenderedOut(its) ==
    LET cols == maxCols
    IN  Concat([k \in 1..Len(its) |-> RenderedLine(its[k], cols)])

\* the streaming window (lines 133-150) of the rendered text out
StreamingWindow(out, cli) ==
    LET window == IF streaming.kind = "number" THEN streaming.n
                  ELSE DEFAULT_STREAMING_WINDOW
        lines == Split(out)
        start0 == IF cli > window \div 2 THEN cli - window \div 2 ELSE 0
        start == IF start0 + window > Len(lines)
                 THEN Max(0, Len(lines) - window - 1)
                 ELSE start0
    IN  Join(Slice(lines, start, start + window)) \o <<NL>>

\* the string niftty() returns for the result of tokenize()
nifttyOutput ==
    IF isStreaming /\ currentLineIndex # NoIndex
    THEN StreamingWindow(RenderedOut(items), currentLineIndex)
    ELSE RenderedOut(items)

----------------------------------------------------------------------------
(* Inputs *)

\* the longest text, in lines, of the exhaustive family
MaxLines == 3

\* the longest text, in lines, of the family of long texts
MaxLong == 6

\* the longest text, in lines, of the family of texts with several words a line
MaxRich == 2

SeqsUpTo(S, n) == UNION {[1..k -> S] : k \in 0..n}

\* the text of the given lines, with or without a newline at its end
TextOf(lines, nl) == Join(lines) \o (IF nl THEN <<NL>> ELSE <<>>)

TextsOver(S, n) == {TextOf(ls, nl) : ls \in SeqsUpTo(S, n), nl \in BOOLEAN}

Bool(b) == [kind |-> "boolean", on |-> b, n |-> 0]

Number(n) == [kind |-> "number", on |-> FALSE, n |-> n]

CollapseBool(b) ==
    [kind |-> "boolean", on |-> b, hasPadding |-> FALSE, padding |-> 0,
     hasSeparator |-> FALSE]

CollapseObject(hasPadding, padding, hasSeparator) ==
    [kind |-> "object", on |-> FALSE, hasPadding |-> hasPadding,
     padding |-> padding, hasSeparator |-> hasSeparator]

\* every text of at most MaxLines lines "a" or "b"
SmallTexts == TextsOver({<<"a">>, <<"b">>}, MaxLines)

\* the lines "a", ..., "a" (n of them)
Same(n) == [k \in 1..n |-> <<"a">>]

\* texts of up to MaxLong lines
LongBefore == {TextOf(Same(n), TRUE) : n \in 0..MaxLong}

LongAfter == {TextOf(ls, TRUE) : ls \in SeqsUpTo({<<"a">>, <<"b">>}, MaxLong)}

\* lines of several words
RichLines == {<<>>, <<"a">>, <<"a", "b">>, <<"a", " ", "b">>}

RichTexts == TextsOver(RichLines, MaxRich)

RichBefore == {TextOf(ls, TRUE) : ls \in SeqsUpTo(RichLines, MaxRich)}

----------------------------------------------------------------------------
(* The state machine: one call of tokenize() after the other, each call    *)
(* stepping through the sections of the function.                          *)

Init ==
    /\ pc = "idle"
    /\ code = <<>>
    /\ diffWith = Undefined
    /\ streaming = Bool(FALSE)
    /\ collapseUnchanged = CollapseBool(FALSE)
    /\ grain = "line"
    /\ changes = <<>>
    /\ upcomingLines = <<>>
    /\ hunks = <<>>
    /\ lineInfos = <<>>
    /\ unifiedLineNumber = 1
    /\ oldLineNumber = 1
    /\ newLineNumber = 1
    /\ built = <<>>
    /\ items = <<>>
    /\ currentLineIndex = NoIndex
    /\ output = <<>>

\* tokenize(options) is called, with no call in progress
Call(options) ==
    /\ pc = "idle"
    /\ \E o \in options :
          /\ code' = o.code
          /\ diffWith' = o.diffWith
          /\ streaming' = o.streaming
          /\ collapseUnchanged' = o.collapseUnchanged
          /\ grain' = o.grain
    /\ pc' = "prep"
    /\ UNCHANGED <<changes, upcomingLines, hunks, lineInfos, unifiedLineNumber,
                   oldLineNumber, newLineNumber, built, items, currentLineIndex, output>>

\* lines 352-419: the texts are normalised, diffed, and the hunks prepared
Prep ==
    /\ pc = "prep"
    /\ \E ch \in diffLines(Join(Slice(fromLines, 0, fromLinesToDiff)), to) :
          LET r == StreamingPrep(ch)
          IN  /\ changes' = r.changes
              /\ upcomingLines' = r.upcomingLines
              /\ hunks' = ch
    /\ pc' = "build"
    /\ UNCHANGED <<code, diffWith, streaming, collapseUnchanged, grain, lineInfos,
                   unifiedLineNumber, oldLineNumber, newLineNumber, built, items,
                   currentLineIndex, output>>

\* lines 421-536: the line records are built
Build ==
    /\ pc = "build"
    /\ \E st \in LineRecords(changes) :
          /\ lineInfos' = st.lineInfos
          /\ unifiedLineNumber' = st.unifiedLineNumber
          /\ oldLineNumber' = st.oldLineNumber
          /\ newLineNumber' = st.newLineNumber
    /\ pc' = "overlay"
    /\ UNCHANGED <<code, diffWith, streaming, collapseUnchanged, grain, changes,
                   upcomingLines, hunks, built, items, currentLineIndex, output>>

\* lines 538-554: the streaming overlay
Overlay ==
    /\ pc = "overlay"
    /\ LET st == [lineInfos |-> lineInfos, unifiedLineNumber |-> unifiedLineNumber,
                  oldLineNumber |-> oldLineNumber]
           out == IF isStreaming /\ ~OverlayThrows(st) THEN StreamingOverlay(st) ELSE st
       IN  /\ lineInfos' = out.lineInfos
           /\ unifiedLineNumber' = out.unifiedLineNumber
           /\ oldLineNumber' = out.oldLineNumber
           /\ built' = out.lineInfos
           /\ pc' = IF isStreaming /\ OverlayThrows(st) THEN "threw" ELSE "collapse"
    /\ UNCHANGED <<code, diffWith, streaming, collapseUnchanged, grain, changes,
                   upcomingLines, hunks, newLineNumber, items, currentLineIndex, output>>

\* lines 556-596: the collapse reducer, then the EOF newline record
Collapse ==
    /\ pc = "collapse"
    /\ lineInfos' = EofNewline(CollapseReducer(lineInfos))
    /\ pc' = "tokens"
    /\ UNCHANGED <<code, diffWith, streaming, collapseUnchanged, grain, changes,
                   upcomingLines, hunks, unifiedLineNumber, oldLineNumber, newLineNumber,
                   built, items, currentLineIndex, output>>

\* lines 598-684: tokens are assigned, the render items projected, and the
\* call returns
Project ==
    /\ pc = "tokens"
    /\ lineInfos' = AssignTokens(lineInfos)
    /\ items' = RenderItems(lineInfos')
    /\ currentLineIndex' = CurrentLineIndex(items')
    /\ pc' = "done"
    /\ UNCHANGED <<code, diffWith, streaming, collapseUnchanged, grain, changes,
                   upcomingLines, hunks, unifiedLineNumber, oldLineNumber, newLineNumber,
                   built, output>>

\* niftty(): the result of tokenize() is rendered, lines 27-152 of render.ts
Render ==
    /\ pc = "done"
    /\ output' = nifttyOutput
    /\ pc' = "rendered"
    /\ UNCHANGED <<code, diffWith, streaming, collapseUnchanged, grain, changes,
                   upcomingLines, hunks, lineInfos, unifiedLineNumber, oldLineNumber,
                   newLineNumber, built, items, currentLineIndex>>

\* the caller is done with the result (or the error) of the call: every
\* variable of tokenize() is local to the call and is gone
Return ==
    /\ pc \in {"done", "rendered", "threw"}
    /\ pc' = "idle"
    /\ code' = <<>>
    /\ diffWith' = Undefined
    /\ streaming' = Bool(FALSE)
    /\ collapseUnchanged' = CollapseBool(FALSE)
    /\ grain' = "line"
    /\ changes' = <<>>
    /\ upcomingLines' = <<>>
    /\ hunks' = <<>>
    /\ lineInfos' = <<>>
    /\ unifiedLineNumber' = 1
    /\ oldLineNumber' = 1
    /\ newLineNumber' = 1
    /\ built' = <<>>
    /\ items' = <<>>
    /\ currentLineIndex' = NoIndex
    /\ output' = <<>>

Steps == Prep \/ Build \/ Overlay \/ Collapse \/ Project \/ Render \/ Return

Options(codes, diffs, modes, grains) ==
    {[code |-> c, diffWith |-> d, streaming |-> m.streaming,
      collapseUnchanged |-> m.collapseUnchanged, grain |-> g]
        : c \in codes, d \in diffs, m \in modes, g \in grains}

Mode(s, c) == [streaming |-> s, collapseUnchanged |-> c]

\* the combinations of `streaming` and `collapseUnchanged`
Modes ==
    {Mode(Bool(FALSE), c) : c \in {CollapseBool(FALSE), CollapseBool(TRUE),
                                   CollapseObject(TRUE, 0, FALSE),
                                   CollapseObject(TRUE, 1, TRUE),
                                   CollapseObject(FALSE, 0, TRUE)}}
    \cup {Mode(Bool(TRUE), CollapseBool(FALSE)), Mode(Bool(TRUE), CollapseBool(TRUE)),
          Mode(Number(2), CollapseBool(FALSE)), Mode(Number(0), CollapseBool(TRUE))}

PlainModes == {Mode(Bool(FALSE), CollapseBool(FALSE)), Mode(Bool(TRUE), CollapseBool(FALSE))}

\* a call on two texts of the exhaustive family, under every mode
CallSmall ==
    Call(Options(SmallTexts, SmallTexts \cup {Undefined}, Modes, {"line"}))

LongModes ==
    {Mode(Bool(FALSE), CollapseBool(TRUE)), Mode(Bool(FALSE), CollapseObject(TRUE, 0, FALSE)),
     Mode(Bool(FALSE), CollapseObject(TRUE, 1, TRUE)), Mode(Bool(TRUE), CollapseBool(TRUE))}

\* a call on a long text and a text it is diffed with
CallLong ==
    Call(Options(LongAfter, LongBefore, LongModes, {"line"}))

\* a call on two texts with several words a line
CallRich ==
    Call(Options(RichTexts, RichBefore, PlainModes, {"word", "char"}))

\* the texts of the scenarios of the documentation
One == <<"o", "n", "e">>
Two == <<"t", "w", "o">>
Three == <<"t", "h", "r", "e", "e">>

ScenarioTexts ==
    {TextOf(<<One, Two, Three>>, TRUE), TextOf(<<One, Two>>, TRUE),
     TextOf(<<One, Two>>, FALSE), TextOf(<<One, <<"t", "w">> >>, FALSE),
     TextOf(<<(<<"a">>), <<"b">>, <<"c">> >>, TRUE),
     TextOf(<<(<<"a">>), <<"x">>, <<"c">> >>, TRUE)}

CallScenario ==
    Call(Options(ScenarioTexts, ScenarioTexts, Modes, {"line", "word"}))

\* lines of two or three words
GapLines == {<<"a", " ", "b">>, <<"a", " ", "c">>, <<"a", "b">>}

GapTexts == {TextOf(<<l>>, TRUE) : l \in GapLines}

\* a call with a highlighter that returns tokens of no character
CallGap ==
    Call(Options(GapTexts, GapTexts, {Mode(Bool(FALSE), CollapseBool(FALSE))}, {"gap"}))

Next == CallSmall \/ CallLong \/ CallRich \/ CallScenario \/ CallGap \/ Steps

Spec == Init /\ [][Next]_vars

\* the call returns and the values of its local variables are left where
\* they were: no later call can read them
ReturnKeep ==
    /\ pc \in {"done", "rendered", "threw"}
    /\ pc' = "idle"
    /\ UNCHANGED <<code, diffWith, streaming, collapseUnchanged, grain, changes,
                   upcomingLines, hunks, lineInfos, unifiedLineNumber, oldLineNumber,
                   newLineNumber, built, items, currentLineIndex, output>>

\* the chunks of an after text that is being streamed
ChunkTexts ==
    {<<>>, One, TextOf(<<One, <<"t", "w">> >>, FALSE), TextOf(<<One, Two>>, TRUE)}

ChunkModes ==
    {Mode(Bool(TRUE), CollapseBool(FALSE)), Mode(Bool(FALSE), CollapseBool(TRUE))}

\* a call for a chunk: the chunks come in any order, skipped or repeated
CallChunk ==
    Call(Options(ChunkTexts, {TextOf(<<One, Two, Three>>, TRUE), Undefined},
                 ChunkModes, {"line"}))

\* calls one after the other, each starting in what the one before left
NextCalls ==
    CallChunk \/ Prep \/ Build \/ Overlay \/ Collapse \/ Project \/ Render \/ ReturnKeep

SpecCalls == Init /\ [][NextCalls]_vars

----------------------------------------------------------------------------
(* Views of a result *)

Done == pc = "done"

IsLine(item) == item.type # "collapsed"

\* the line records of the output in order, the lines of a collapsed group
\* in the place of the group
RECURSIVE FlatLines(_)
FlatLines(its) ==
    IF Len(its) = 0 THEN <<>>
    ELSE (IF IsLine(its[1]) THEN <<its[1]>> ELSE its[1].lines) \o FlatLines(Tail(its))

\* the text of a line record: its spans one after the other
TextOfLine(line) == Concat([k \in 1..Len(line.tokens) |-> line.tokens[k].content])

\* the type and the line numbers of a line record
Shape(r) ==
    [type |-> r.type, oldLineNumber |-> r.oldLineNumber,
     newLineNumber |-> r.newLineNumber]

\* the unified sequence: the records 1..last the builder and the overlay made
Unified == IF Len(built) = 0 THEN <<>> ELSE Tail(built)

Changed(r) == r.type = "added" \/ r.type = "removed"

\* the line record r is a visible top-level item
VisibleTop(r) ==
    \E g \in 1..Len(items) : IsLine(items[g]) /\ Shape(items[g]) = Shape(r)

\* the groups that hold the line record r
GroupsOf(r) ==
    {g \in 1..Len(items) :
        /\ ~IsLine(items[g])
        /\ \E l \in 1..Len(items[g].lines) : Shape(items[g].lines[l]) = Shape(r)}

\* the items that are not the synthetic EOF record
RealItems == SelectSeq(items, LAMBDA it : ~IsLine(it) \/ it.specialText = "")

----------------------------------------------------------------------------
(* C1 *)

\* C1: without diffWith (no streaming, no collapse) every item is of type
\* `default` and there is one item for each line of `code`
C1_PlainOnlyDefault ==
    (Done /\ ~isDiff /\ ~isStreaming /\ collapseUnchanged = CollapseBool(FALSE))
    => /\ \A k \in 1..Len(items) : items[k].type = "default"
       /\ Len(items) = Len(toLines)

----------------------------------------------------------------------------
(* C2 *)

\* C2: with diffWith equal to code no line record, top-level or inside a
\* collapsed group, is of type `added` or `removed`
C2_NoOpDiff ==
    (Done /\ isDiff /\ diffWith = code)
    => LET F == FlatLines(items)
       IN  \A k \in 1..Len(F) : ~Changed(F[k])

C2_Witness ==
    /\ Done /\ isDiff /\ diffWith = code /\ Len(code) > 1
    /\ HasCollapseConfig
    /\ \E g \in 1..Len(items) : ~IsLine(items[g])

----------------------------------------------------------------------------
(* C3 *)

SpecialsTop == {k \in 1..Len(items) : IsLine(items[k]) /\ items[k].specialText # ""}

SpecialsInGroups ==
    {g \in 1..Len(items) :
        /\ ~IsLine(items[g])
        /\ \E l \in 1..Len(items[g].lines) : items[g].lines[l].specialText # ""}

\* C3: in diff mode, when exactly one of the two texts ended with a newline
\* exactly one record carries specialText and it is the last item, `added`
\* "(added newline at end of file)" or `removed` "(removed newline at end of
\* file)"; otherwise no record carries specialText; before "a", after "a\n"
\* gives exactly one `added` record, that last one
C3_EofAnnotation ==
    (Done /\ isDiff)
    => /\ SpecialsInGroups = {}
       /\ IF EndsWithNL(diffWith) # EndsWithNL(code)
          THEN /\ SpecialsTop = {Len(items)}
               /\ items[Len(items)].type =
                     (IF EndsWithNL(code) THEN "added" ELSE "removed")
               /\ items[Len(items)].specialText =
                     (IF EndsWithNL(code) THEN "(added newline at end of file)"
                      ELSE "(removed newline at end of file)")
          ELSE SpecialsTop = {}
       /\ (diffWith = <<"a">> /\ code = <<"a", NL>>)
          => LET F == FlatLines(items)
             IN  /\ {k \in 1..Len(F) : F[k].type = "added"} = {Len(F)}
                 /\ F[Len(F)].specialText = "(added newline at end of file)"

C3_Witness ==
    /\ Done /\ isDiff /\ ~EndsWithNL(diffWith) /\ EndsWithNL(code)
    /\ Len(items) > 2
    /\ items[Len(items)].specialText # ""

----------------------------------------------------------------------------
(* C4 *)

\* C4: in streaming mode, for a non-empty after text, exactly one item is
\* of type `current` and every item after it is of type `upcoming`
C4_SingleCurrentLast ==
    (Done /\ isStreaming /\ Len(code) > 0)
    => LET cur == {k \in 1..Len(items) : items[k].type = "current"}
       IN  /\ Cardinality(cur) = 1
           /\ \A k \in cur : \A j \in (k + 1)..Len(items) : items[j].type = "upcoming"

----------------------------------------------------------------------------
(* C5 *)

\* C5: before "one\ntwo\nthree\n", after "one\ntwo\n", streaming: record 1
\* `default`, record 2 `current` with oldLineNumber 2, record 3 `upcoming`
\* with oldLineNumber 3 and the tokens of the line "three"
C5_StreamingScenario ==
    (/\ Done /\ isStreaming
     /\ diffWith = TextOf(<<One, Two, Three>>, TRUE)
     /\ code = TextOf(<<One, Two>>, TRUE))
    => /\ Len(items) = 3
       /\ items[1].type = "default"
       /\ items[2].type = "current" /\ items[2].oldLineNumber = 2
       /\ items[3].type = "upcoming" /\ items[3].oldLineNumber = 3
       /\ TextOfLine(items[3]) = Three

----------------------------------------------------------------------------
(* C6 *)

\* the number of lines of the before text when it ends with a newline
C6_n == Len(fromLines) - 1

\* the after text is the before text with exactly its line k replaced
C6_Replaced(k) ==
    /\ Done /\ isDiff /\ ~isStreaming /\ ~HasCollapseConfig
    /\ EndsWithNL(diffWith) /\ EndsWithNL(code)
    /\ Len(fromLines) = Len(toLines)
    /\ k \in 1..C6_n
    /\ \A i \in 1..C6_n : (fromLines[i] = toLines[i]) <=> (i # k)

\* neither the old nor the new text of line k is the text of a neighbour
C6_Apart(k) ==
    \A j \in {k - 1, k + 1} \cap (1..C6_n) :
        fromLines[j] # fromLines[k] /\ fromLines[j] # toLines[k]

C6_Expected(k) ==
    [i \in 1..(C6_n + 1) |->
        IF i < k THEN [type |-> "default", oldLineNumber |-> i, newLineNumber |-> i]
        ELSE IF i = k
        THEN [type |-> "removed", oldLineNumber |-> k, newLineNumber |-> Undef]
        ELSE IF i = k + 1
        THEN [type |-> "added", oldLineNumber |-> Undef, newLineNumber |-> k]
        ELSE [type |-> "default", oldLineNumber |-> i - 1, newLineNumber |-> i - 1]]

C6_SingleWord(line) ==
    Len(WordTokens(line)) = 1 /\ CharClass(line[1]) = "word"

C6_AllMarked(item) ==
    /\ Len(item.tokens) > 0
    /\ \A t \in 1..Len(item.tokens) : item.tokens[t].marked

C6_Outcome(k) ==
    /\ Len(items) = C6_n + 1
    /\ \A i \in 1..Len(items) : IsLine(items[i])
    /\ [i \in 1..Len(items) |-> Shape(items[i])] = C6_Expected(k)
    /\ (C6_SingleWord(fromLines[k]) /\ C6_SingleWord(toLines[k]))
       => C6_AllMarked(items[k]) /\ C6_AllMarked(items[k + 1])

\* C6 as stated: replacing exactly one line k of an n-line text (diff mode,
\* no streaming, no collapse, both texts ending with a newline) yields the
\* n+1 records default.., removed(old=k), added(new=k), default.., the pair
\* marked throughout when the line is a single word token on both sides
C6_ReplaceOneLine ==
    \A k \in 1..MaxLong : C6_Replaced(k) => C6_Outcome(k)

\* C6, amended: the same when, in addition, neither the old nor the new
\* text of line k equals the text of line k-1 or of line k+1
C6_ReplaceOneLineApart ==
    \A k \in 1..MaxLong : (C6_Replaced(k) /\ C6_Apart(k)) => C6_Outcome(k)

C6_Witness ==
    /\ C6_Replaced(2) /\ C6_Apart(2) /\ C6_n = 3
    /\ C6_SingleWord(fromLines[2]) /\ C6_SingleWord(toLines[2])
    /\ items[2].type = "removed" /\ items[3].type = "added"

----------------------------------------------------------------------------
(* C7 *)

\* the source line a line record stands for: a line of the before text for
\* `removed` and `upcoming`, a line of the after text otherwise
C7_HasSource(r) ==
    /\ r.specialText = ""
    /\ IF r.type \in {"removed", "upcoming"}
       THEN r.oldLineNumber \in 1..Len(fromLines)
       ELSE r.newLineNumber \in 1..Len(toLines)

C7_Source(r) ==
    IF r.type \in {"removed", "upcoming"}
    THEN fromLines[r.oldLineNumber]
    ELSE toLines[r.newLineNumber]

\* C7: the spans of every line record that stands for a source line, top
\* level or inside a collapsed group, concatenate to that line's text (and
\* so their lengths sum to its length)
C7_ColumnConservation ==
    Done =>
       \A k \in 1..Len(FlatLines(items)) :
           C7_HasSource(FlatLines(items)[k])
           => TextOfLine(FlatLines(items)[k]) = C7_Source(FlatLines(items)[k])

----------------------------------------------------------------------------
(* C8 *)

\* the default record i of the unified sequence lies between two changes
C8_Interior(i) ==
    /\ Unified[i].type = "default"
    /\ \E j \in 1..(i - 1) : Changed(Unified[j])
    /\ \E j \in (i + 1)..Len(Unified) : Changed(Unified[j])

\* C8: with collapse enabled and padding 0, every default line between two
\* changed lines is in exactly one collapsed group, once, and is no visible
\* top-level line
C8_InteriorCollapsed ==
    (Done /\ HasCollapseConfig /\ CollapsePadding = 0)
    => \A i \in 1..Len(Unified) :
          C8_Interior(i)
          => /\ Cardinality(GroupsOf(Unified[i])) = 1
             /\ \A g \in GroupsOf(Unified[i]) :
                   Cardinality({l \in 1..Len(items[g].lines) :
                                  Shape(items[g].lines[l]) = Shape(Unified[i])}) = 1
             /\ ~VisibleTop(Unified[i])

C8_Witness ==
    /\ Done /\ HasCollapseConfig /\ CollapsePadding = 0
    /\ \E i \in 1..Len(Unified) : C8_Interior(i) /\ C8_Interior(i + 1)
    /\ Cardinality({g \in 1..Len(items) : ~IsLine(items[g])}) >= 2

----------------------------------------------------------------------------
(* C9 *)

\* the length of the run of default records at the start of the unified
\* sequence, and of the one at its end
C9_LeadingRun ==
    Cardinality({i \in 1..Len(Unified) :
                   \A j \in 1..i : Unified[j].type = "default"})

C9_TrailingRun ==
    Cardinality({i \in 1..Len(Unified) :
                   \A j \in i..Len(Unified) : Unified[j].type = "default"})

C9_First == Unified[1]

C9_Last == Unified[Len(Unified)]

\* C9 as stated: with collapse enabled, for every padding, the first and
\* the last line record of the unified sequence stay visible top-level
\* lines, never inside a collapsed group
C9_EdgesNeverCollapsed ==
    (Done /\ HasCollapseConfig /\ Len(Unified) > 0)
    => /\ VisibleTop(C9_First) /\ GroupsOf(C9_First) = {}
       /\ VisibleTop(C9_Last) /\ GroupsOf(C9_Last) = {}

\* C9, amended: with collapse enabled, for every padding, a default line
\* within `padding` lines of a changed line stays a visible top-level line;
\* the first line record is inside a collapsed group exactly when the run
\* of default records it starts is longer than padding or is the whole
\* sequence, and so is the last line record for the run it ends
C9_EdgesCollapsedWhenLong ==
    (Done /\ HasCollapseConfig /\ Len(Unified) > 0)
    => /\ \A i \in 1..Len(Unified) :
             (/\ Unified[i].type = "default"
              /\ \E j \in 1..Len(Unified) :
                    /\ Unified[j].type # "default"
                    /\ j - i <= CollapsePadding /\ i - j <= CollapsePadding)
             => VisibleTop(Unified[i]) /\ GroupsOf(Unified[i]) = {}
       /\ (GroupsOf(C9_First) # {})
             <=> (C9_LeadingRun > CollapsePadding \/ C9_LeadingRun = Len(Unified))
       /\ (GroupsOf(C9_Last) # {})
             <=> (C9_TrailingRun > CollapsePadding \/ C9_TrailingRun = Len(Unified))
       /\ VisibleTop(C9_First) <=> (GroupsOf(C9_First) = {})
       /\ VisibleTop(C9_Last) <=> (GroupsOf(C9_Last) = {})

C9_Witness ==
    /\ Done /\ HasCollapseConfig /\ CollapsePadding > 0
    /\ C9_LeadingRun > CollapsePadding /\ C9_LeadingRun < Len(Unified)
    /\ GroupsOf(C9_First) # {}
    /\ \E i \in 1..Len(Unified) : Unified[i].type = "default" /\ VisibleTop(Unified[i])

----------------------------------------------------------------------------
(* C10 *)

\* padding and separator as the rule gives them, defaults included
C10_Padding ==
    IF collapseUnchanged.kind = "object" /\ collapseUnchanged.hasPadding
    THEN collapseUnchanged.padding ELSE 3

C10_Separator(n) ==
    IF collapseUnchanged.kind = "object" /\ collapseUnchanged.hasSeparator
    THEN CallerSeparator(n) ELSE <<"--- ", n, " unchanged ---">>

\* the maximal run [start, end) of default records that holds record i
C10_RunStart(i) ==
    CHOOSE s \in 1..i :
        /\ \A k \in s..i : Unified[k].type = "default"
        /\ s = 1 \/ Unified[s - 1].type # "default"

C10_RunEnd(i) ==
    CHOOSE e \in (i + 1)..(Len(Unified) + 1) :
        /\ \A k \in i..(e - 1) : Unified[k].type = "default"
        /\ e = Len(Unified) + 1 \/ Unified[e].type # "default"

\* the run's edges after trimming
C10_Start(i) ==
    IF C10_RunStart(i) = 1 THEN 1 ELSE C10_RunStart(i) + C10_Padding

C10_End(i) ==
    IF C10_RunEnd(i) = Len(Unified) + 1 THEN C10_RunEnd(i)
    ELSE C10_RunEnd(i) - C10_Padding

C10_InGroup(i) ==
    /\ Unified[i].type = "default"
    /\ C10_End(i) > C10_Start(i)
    /\ C10_Start(i) <= i /\ i < C10_End(i)

\* what the rule makes of the records i.. of the unified sequence
RECURSIVE C10_Expected(_)
C10_Expected(i) ==
    IF i > Len(Unified) THEN <<>>
    ELSE IF ~C10_InGroup(i) THEN <<Shape(Unified[i])>> \o C10_Expected(i + 1)
    ELSE <<[type |-> "collapsed",
            collapsedCount |-> C10_End(i) - C10_Start(i),
            separatorText |-> C10_Separator(C10_End(i) - C10_Start(i)),
            lines |-> [k \in 1..(C10_End(i) - C10_Start(i)) |->
                          Shape(Unified[C10_Start(i) + k - 1])]]>>
         \o C10_Expected(C10_End(i))

C10_ShapeOfItem(it) ==
    IF IsLine(it) THEN Shape(it)
    ELSE [type |-> "collapsed", collapsedCount |-> it.collapsedCount,
          separatorText |-> it.separatorText,
          lines |-> [k \in 1..Len(it.lines) |-> Shape(it.lines[k])]]

\* C10: each maximal run of default records, its leading edge advanced by
\* padding unless the run begins at line 1 and its trailing edge retreated
\* by padding unless the run reaches the end, stays visible when the
\* trimmed range is empty and otherwise has exactly the records of the
\* trimmed range replaced by one collapsed item holding them in order, with
\* collapsedCount end - start and separatorText separator(end - start);
\* padding defaults to 3 and the separator to "--- N unchanged ---"
C10_CollapseRule ==
    (Done /\ HasCollapseConfig)
    => [k \in 1..Len(RealItems) |-> C10_ShapeOfItem(RealItems[k])] = C10_Expected(1)

C10_Witness ==
    /\ Done /\ HasCollapseConfig /\ collapseUnchanged = CollapseBool(TRUE)
    /\ \E g \in 1..Len(items) :
          /\ ~IsLine(items[g])
          /\ items[g].collapsedCount = 2
          /\ items[g].separatorText = <<"--- ", 2, " unchanged ---">>
    /\ \E i \in 1..Len(Unified) : Unified[i].type = "default" /\ VisibleTop(Unified[i])
    /\ \E i \in 1..Len(Unified) : Changed(Unified[i])

----------------------------------------------------------------------------
(* C11 *)

\* the collapsed items of the output
Groups == {g \in 1..Len(items) : ~IsLine(items[g])}

\* C11: an item of type `collapsed` exists only if collapseUnchanged was
\* requested, diffWith was supplied and streaming is not active; with
\* streaming active or diffWith absent no item is collapsed
C11_CollapseGuard ==
    Done =>
       /\ Groups # {}
          => /\ (collapseUnchanged.kind = "object" \/ collapseUnchanged.on)
             /\ diffWith # Undefined
             /\ ~IsTruthyStreaming(streaming)
       /\ (IsTruthyStreaming(streaming) \/ diffWith = Undefined) => Groups = {}

C11_Witness ==
    /\ Done /\ IsTruthyStreaming(streaming) /\ diffWith # Undefined
    /\ collapseUnchanged = CollapseBool(TRUE)
    /\ Len(items) >= 6
    /\ \A k \in 1..5 : items[k].type = "default"

----------------------------------------------------------------------------
(* C12 *)

\* a line record's type, line numbers and special text
C12_Shape(r) ==
    [type |-> r.type, oldLineNumber |-> r.oldLineNumber,
     newLineNumber |-> r.newLineNumber, specialText |-> r.specialText]

\* the output the same line records give with collapse disabled
C12_Uncollapsed ==
    LET arr == AssignTokens(EofNewline(built))
    IN  [k \in 1..(Len(arr) - 1) |-> convertLineInfoToRenderLine(arr[k + 1])]

\* C12: with every collapsed item replaced in place by its lines, the
\* collapsed output has the types and line numbers, in the same order, of
\* the output produced with collapse disabled: no line record is lost,
\* duplicated or reordered; only default records are inside a group
C12_CollapseLossless ==
    (Done /\ HasCollapseConfig) =>
       /\ LET F == FlatLines(items)
              U == C12_Uncollapsed
          IN  [k \in 1..Len(F) |-> C12_Shape(F[k])]
                 = [k \in 1..Len(U) |-> C12_Shape(U[k])]
       /\ \A g \in Groups : \A l \in 1..Len(items[g].lines) :
             items[g].lines[l].type = "default"

C12_Witness ==
    /\ Done /\ HasCollapseConfig
    /\ Cardinality(Groups) >= 2
    /\ \E g \in Groups : Len(items[g].lines) >= 2
    /\ \E k \in 1..Len(items) : Changed(items[k])

----------------------------------------------------------------------------
(* C13 *)

\* the projection of the after-text token array at newLineNumber - 1
C13_TokensOf(line) ==
    ProjectTokens(TokensAt(codeToTokens(to, grain), line.newLineNumber - 1), {}, 1, 0)

\* C13: every line held inside a collapsed group carries the projection of
\* the after-text tokens of its line, as a visible line does
C13_CollapsedLineTokens ==
    Done =>
       \A g \in Groups : \A l \in 1..Len(items[g].lines) :
           items[g].lines[l].tokens = C13_TokensOf(items[g].lines[l])

----------------------------------------------------------------------------
(* C14 *)

C14_Current == {k \in 1..Len(items) : items[k].type = "current"}

\* C14: at most one item is of type `current`; one exists iff streaming is
\* active; currentLineIndex is defined iff a `current` item exists and is
\* then its 0-based position in items; without streaming no item, top-level
\* or in a group, is `current` or `upcoming`
C14_CurrentIndex ==
    Done =>
       /\ Cardinality(C14_Current) <= 1
       /\ (C14_Current # {}) <=> IsTruthyStreaming(streaming)
       /\ (currentLineIndex # NoIndex) <=> (C14_Current # {})
       /\ \A k \in C14_Current : currentLineIndex = k - 1
       /\ ~IsTruthyStreaming(streaming)
          => LET F == FlatLines(items)
             IN  \A k \in 1..Len(F) : F[k].type \notin {"current", "upcoming"}

C14_Witness ==
    /\ Done /\ IsTruthyStreaming(streaming)
    /\ currentLineIndex = 2
    /\ Len(items) >= 4
    /\ items[3].type = "current" /\ items[4].type = "upcoming"

----------------------------------------------------------------------------
(* C15 *)

\* the line records that carry marks
C15_Marked == {i \in 2..Len(built) : built[i].marks # {}}

\* C15: every column at which a mark is set on a line record is smaller
\* than the length of the source line of that record, the before line for
\* `removed` and the after line for `added`, in every modified block
C15_MarksInLine ==
    Done =>
       \A i \in C15_Marked :
           /\ built[i].type \in {"removed", "added"}
           /\ IF built[i].type = "removed"
              THEN /\ built[i].oldLineNumber \in 1..Len(fromLines)
                   /\ \A c \in built[i].marks :
                         c >= 0 /\ c < Len(fromLines[built[i].oldLineNumber])
              ELSE /\ built[i].newLineNumber \in 1..Len(toLines)
                   /\ \A c \in built[i].marks :
                         c >= 0 /\ c < Len(toLines[built[i].newLineNumber])

\* a modified block of two removed lines and one added line, all marked
C15_Witness ==
    /\ Done
    /\ \E i \in C15_Marked :
          /\ i + 2 = Len(built)
          /\ built[i].type = "removed"
          /\ built[i + 1].type = "removed" /\ (i + 1) \in C15_Marked
          /\ built[i + 2].type = "added" /\ (i + 2) \in C15_Marked
          /\ Cardinality(built[i + 2].marks) >= 2

----------------------------------------------------------------------------
(* C16 *)

\* C16: for every input, the degenerate ones included (identical texts,
\* empty texts, one hunk covering everything), and every combination of
\* options, tokenize raises no error: the current-line index of the
\* streaming overlay designates an existing line record
C16_NoThrow ==
    /\ pc # "threw"
    /\ (pc = "overlay" /\ isStreaming)
       => ~OverlayThrows([lineInfos |-> lineInfos,
                          unifiedLineNumber |-> unifiedLineNumber,
                          oldLineNumber |-> oldLineNumber])

\* a finished streaming call on an empty after text and a one-line before
\* text: a removed hunk and an added hunk cover everything
C16_Witness ==
    /\ Done /\ isStreaming
    /\ code = <<>> /\ diffWith = <<"a", NL>>
    /\ Len(items) >= 1

----------------------------------------------------------------------------
(* C18 *)

Rendered == pc = "rendered"

\* the rendered lines, one for each item of a streaming result
C18_Lines == [k \in 1..Len(items) |-> StripNL(RenderedItem(items[k]))]

\* the lines of the returned text
C18_Returned == Split(StripNL(output))

C18_Window ==
    IF streaming.kind = "number" THEN streaming.n ELSE 20

\* the returned lines are the rendered lines s+1 .. s+n
C18_RunAt(s, n) ==
    /\ s + n <= Len(C18_Lines)
    /\ C18_Returned = SubSeq(C18_Lines, s + 1, s + n)

\* C18: in streaming mode niftty returns min(window, L) lines, window the
\* numeric `streaming` value or 20, L the number of rendered lines; they
\* are a contiguous run of the rendered lines in order, with no blank
\* filler line, and the line of the `current` item is one of them
C18_StreamingWindow ==
    (Rendered /\ isStreaming) =>
       /\ Len(C18_Returned) = Min(C18_Window, Len(C18_Lines))
       /\ \E s \in 0..Len(C18_Lines) :
             /\ C18_RunAt(s, Len(C18_Returned))
             /\ currentLineIndex >= s
             /\ currentLineIndex < s + Len(C18_Returned)

----------------------------------------------------------------------------
(* C17 *)

\* the builder's variables of a call made alone
C17_Fresh ==
    [lineInfos |-> <<>>, unifiedLineNumber |-> 1, oldLineNumber |-> 1,
     newLineNumber |-> 1, fromUnifiedLine |-> 0, toUnifiedLine |-> 0,
     fromCol |-> 0, toCol |-> 0]

\* the line records a call made alone builds from the hunks chs
C17_Records(chs) ==
    LET sts == IF isDiff THEN DiffLineInfos(C17_Fresh, chs, 0)
               ELSE {PlainLineInfos(C17_Fresh)}
    IN  {(IF isStreaming THEN StreamingOverlay(st) ELSE st).lineInfos : st \in sts}

\* the result in hand is a result of the call made alone with the same
\* arguments: it comes from a line diff of the two texts and nothing else
C17_ResultAlone ==
    \E ch \in diffLines(Join(Slice(fromLines, 0, fromLinesToDiff)), to) :
        /\ StreamingPrep(ch).changes = changes
        /\ StreamingPrep(ch).upcomingLines = upcomingLines
        /\ \E recs \in C17_Records(changes) :
              /\ built = recs
              /\ items = RenderItems(AssignTokens(EofNewline(CollapseReducer(recs))))
        /\ currentLineIndex = CurrentLineIndex(items)

\* C17: in any sequence of calls the result of each call (and the string
\* niftty makes of it) is a result of that call made alone with the same
\* arguments, whatever the earlier calls were
C17_Stateless ==
    /\ Done => C17_ResultAlone
    /\ Rendered => C17_ResultAlone /\ output = nifttyOutput

\* a call finished after an earlier call with other arguments left a
\* rendered string and its counters behind
C17_Witness ==
    /\ Done /\ isStreaming /\ isDiff
    /\ code = TextOf(<<One, Two>>, TRUE)
    /\ output # <<>>
    /\ Len(Split(output)) > Len(items) + 2

----------------------------------------------------------------------------
(* C19 *)

\* the line records of the output that carry a line number of the before
\* text, and those that carry one of the after text
C19_Old ==
    SelectSeq(items, LAMBDA it :
        it.type \in {"default", "removed"} /\ it.specialText = "")

C19_New ==
    SelectSeq(items, LAMBDA it :
        it.type \in {"default", "added"} /\ it.specialText = "")

\* C19: in diff mode without streaming and collapse, whatever hunks the
\* line diff returns, the oldLineNumbers of the `default` and `removed`
\* records in output order are 1..B and the newLineNumbers of the
\* `default` and `added` records are 1..A, B and A the numbers of lines of
\* the before and the after text
C19_LineNumberCoverage ==
    (Done /\ isDiff /\ ~isStreaming /\ ~HasCollapseConfig) =>
       /\ [k \in 1..Len(C19_Old) |-> C19_Old[k].oldLineNumber]
             = [k \in 1..(Len(fromLines) - 1) |-> k]
       /\ [k \in 1..Len(C19_New) |-> C19_New[k].newLineNumber]
             = [k \in 1..(Len(toLines) - 1) |-> k]

\* a modified block of one removed and two added lines after a default line
C19_Witness ==
    /\ Done /\ isDiff /\ ~isStreaming /\ ~HasCollapseConfig
    /\ Len(items) = 4 /\ Len(built) = 5
    /\ items[1].type = "default"
    /\ items[2].type = "removed" /\ built[3].marks # {}
    /\ items[3].type = "added" /\ built[4].marks # {}
    /\ items[4].type = "added" /\ built[5].marks # {}

----------------------------------------------------------------------------
(* C20 *)

\* n records of one type, numbered from old and from new on
C20_Run(type, n, old, new) ==
    [k \in 1..n |->
        [type |-> type,
         oldLineNumber |-> IF type = "added" THEN Undef ELSE old + k - 1,
         newLineNumber |-> IF type = "removed" THEN Undef ELSE new + k - 1]]

\* the unified sequence the hunks chs[i..] stand for: for a removed hunk
\* followed by an added hunk the removed records, then the added records
RECURSIVE C20_Expected(_, _, _, _)
C20_Expected(chs, i, old, new) ==
    IF i > Len(chs) THEN <<>>
    ELSE IF chs[i].removed /\ i < Len(chs) /\ chs[i + 1].added
    THEN C20_Run("removed", chs[i].count, old, new)
         \o C20_Run("added", chs[i + 1].count, old, new)
         \o C20_Expected(chs, i + 2, old + chs[i].count, new + chs[i + 1].count)
    ELSE IF chs[i].removed
    THEN C20_Run("removed", chs[i].count, old, new)
         \o C20_Expected(chs, i + 1, old + chs[i].count, new)
    ELSE IF chs[i].added
    THEN C20_Run("added", chs[i].count, old, new)
         \o C20_Expected(chs, i + 1, old, new + chs[i].count)
    ELSE C20_Run("default", chs[i].count, old, new)
         \o C20_Expected(chs, i + 1, old + chs[i].count, new + chs[i].count)

\* C20: after the builder and the overlay the unified sequence has a
\* record at every index 1..last and every item has a type; a modified
\* block of r removed and a added lines takes r+a consecutive indices, the
\* removed records first, and the unified counter goes on right after it
\* (in streaming mode the overlay then retypes the last record)
C20_Contiguous ==
    /\ (pc \in {"collapse", "tokens", "done", "rendered"})
       => \A i \in 2..Len(built) : ~IsHole(built[i])
    /\ Done => \A k \in 1..Len(items) : items[k].type # "undefined"
    /\ (Done /\ isDiff)
       => LET E == C20_Expected(changes, 1, 1, 1)
              n == IF isStreaming THEN Len(E) - 1 ELSE Len(E)
          IN  /\ Len(built) > n
              /\ \A k \in 1..n : Shape(built[k + 1]) = E[k]
              /\ ~isStreaming
                 => Len(built) = Len(E) + 1 /\ unifiedLineNumber = Len(E) + 1

\* a modified block of two removed lines and one added line, and a default
\* record right after it
C20_Witness ==
    /\ Done /\ isDiff /\ ~isStreaming
    /\ Len(built) = 5
    /\ built[2].type = "removed" /\ built[2].marks # {}
    /\ built[3].type = "removed" /\ built[3].marks # {}
    /\ built[4].type = "added" /\ built[4].marks # {}
    /\ built[5].type = "default"

----------------------------------------------------------------------------
(* C21 *)

\* the kind of the word-diff token each character of one side's text
\* belongs to: the tokens of the other side are not part of that text
RECURSIVE C21_Kinds(_, _, _)
C21_Kinds(inner, k, side) ==
    IF k > Len(inner) THEN <<>>
    ELSE LET kind == KindOf(inner[k])
             other == IF side = "removed" THEN "added" ELSE "removed"
         IN  (IF kind = other THEN <<>>
              ELSE [c \in 1..Len(inner[k].value) |-> kind])
             \o C21_Kinds(inner, k + 1, side)

\* the line (from 0) and the column (from 0) of the i-th character of S
C21_LineOf(S, i) == Cardinality({j \in 1..(i - 1) : S[j] = NL})

C21_ColOf(S, i) == i - 1 - MaxOf({0} \cup {j \in 1..(i - 1) : S[j] = NL})

\* the columns of line l of S whose characters belong to a token of the
\* side's own kind
C21_Marks(S, kinds, side, l) ==
    {C21_ColOf(S, i) : i \in {j \in 1..Len(S) :
        S[j] # NL /\ kinds[j] = side /\ C21_LineOf(S, j) = l}}

\* the unmarked characters of the records from index u on that hold the
\* text S, from its i-th character on: a character of a line is unmarked
\* when the record of its line has no mark at its column, a line break
\* when it belongs to an equal token
RECURSIVE C21_Unmarked(_, _, _, _)
C21_Unmarked(S, kinds, u, i) ==
    IF i > Len(S) THEN <<>>
    ELSE LET keep == IF S[i] = NL THEN kinds[i] = "equal"
                     ELSE C21_ColOf(S, i) \notin built[u + 1 + C21_LineOf(S, i)].marks
         IN  (IF keep THEN <<S[i]>> ELSE <<>>) \o C21_Unmarked(S, kinds, u, i + 1)

\* the modified blocks of the hunks chs[i..]: the index of the removed hunk
\* and the unified index u of its first record
RECURSIVE C21_Blocks(_, _, _)
C21_Blocks(chs, i, u) ==
    IF i > Len(chs) THEN {}
    ELSE IF chs[i].removed /\ i < Len(chs) /\ chs[i + 1].added
    THEN {<<i, u>>} \cup C21_Blocks(chs, i + 2, u + chs[i].count + chs[i + 1].count)
    ELSE C21_Blocks(chs, i + 1, u + chs[i].count)

\* the unified indices of the records of the modified blocks
C21_InBlocks ==
    UNION {b[2]..(b[2] + changes[b[1]].count + changes[b[1] + 1].count - 1)
              : b \in C21_Blocks(changes, 1, 1)}

\* the marks of the block b are those of one result of the word diff
C21_BlockMarked(b) ==
    LET rem == changes[b[1]]
        add == changes[b[1] + 1]
        u == b[2]
        S == StripNL(rem.value)
        T == StripNL(add.value)
    IN  \E inner \in diffWordsWithSpace(S, T) :
           LET ks == C21_Kinds(inner, 1, "removed")
               kt == C21_Kinds(inner, 1, "added")
           IN  /\ Len(ks) = Len(S) /\ Len(kt) = Len(T)
               /\ \A l \in 0..(rem.count - 1) :
                     built[u + 1 + l].marks = C21_Marks(S, ks, "removed", l)
               /\ \A l \in 0..(add.count - 1) :
                     built[u + rem.count + 1 + l].marks = C21_Marks(T, kt, "added", l)
               /\ C21_Unmarked(S, ks, u, 1) = C21_Unmarked(T, kt, u + rem.count, 1)

\* C21: in every modified block, for one result of the word diff, the
\* marked columns of each removed line are exactly those of its characters
\* inside remove-only tokens and the marked columns of each added line
\* exactly those of its characters inside add-only tokens, the column
\* counted from 0 after each line break of a token; the unmarked characters
\* of the removed lines, with the line breaks of equal tokens, are those
\* of the added lines; no record outside a modified block has a mark
C21_MarkSemantics ==
    (Done /\ isDiff) =>
       /\ \A b \in C21_Blocks(changes, 1, 1) : C21_BlockMarked(b)
       /\ \A i \in 2..Len(built) : (i - 1) \notin C21_InBlocks => built[i].marks = {}

\* a modified block of two removed and two added lines, with a removed
\* line marked in part only, an added line marked and one not marked
C21_Witness ==
    /\ Done /\ isDiff
    /\ \E b \in C21_Blocks(changes, 1, 1) :
          LET rem == changes[b[1]]
              add == changes[b[1] + 1]
              u == b[2]
          IN  /\ rem.count = 2 /\ add.count = 2
              /\ \E l \in 0..1 :
                    LET r == built[u + 1 + l]
                    IN  /\ r.marks # {}
                        /\ Cardinality(r.marks) < Len(fromLines[r.oldLineNumber])
              /\ \E l \in 0..1 : built[u + 3 + l].marks # {}
              /\ \E l \in 0..1 : built[u + 3 + l].marks = {}

----------------------------------------------------------------------------
(* C22 *)

\* the numbers of lines of the before text and of the after text
C22_B == Len(fromLines) - 1

C22_A == Len(toLines) - 1

\* the hunks of chs that hold lines of the before text
C22_BeforeHunks(chs) == SelectSeq(chs, LAMBDA c : ~c.added)

\* the text of the before lines the hunks chs hold
C22_Text(chs) ==
    LET h == C22_BeforeHunks(chs)
    IN  Concat([k \in 1..Len(h) |-> h[k].value])

\* the first n lines of the before text, each with its line break
C22_Prefix(n) == Concat([k \in 1..Min(n, C22_B) |-> fromLines[k] \o <<NL>>])

\* the hunks hold the first n lines of the before text, and the preview
\* text set aside at line 401 holds the lines after them
C22_Diffed(n) ==
    /\ C22_Text(hunks) \in {C22_Prefix(n), StripNL(C22_Prefix(n))}
    /\ LET rest == SubSeq(fromLines, Min(n, C22_B) + 1, C22_B)
           m == Len(upcomingLines) - Len(rest)
       IN  isStreaming =>
              \E t \in 0..1 :
                 /\ m - t >= 0
                 /\ SubSeq(upcomingLines, m - t + 1, Len(upcomingLines) - t) = rest

\* C22: with streaming the line diff is run over the first N lines of the
\* before text, N the number of lines of the after text plus 3, and the
\* before lines after them are the preview text; without streaming the
\* whole before text is diffed
C22_DiffedPrefix ==
    (pc \in {"build", "overlay", "collapse", "tokens", "done"} /\ isDiff) =>
       IF isStreaming THEN C22_Diffed(C22_A + 3) ELSE C22_Diffed(C22_B)

----------------------------------------------------------------------------
(* C23 *)

\* the hunks are prepared
Prepared == pc \in {"build", "overlay", "collapse", "tokens", "done"}

\* the line diff returned hunks that end with a removed hunk followed by
\* an added hunk, in streaming diff mode
C23_TrailingPair ==
    /\ isStreaming /\ isDiff
    /\ Len(hunks) >= 2
    /\ hunks[Len(hunks)].added
    /\ hunks[Len(hunks) - 1].removed

\* the number of records the hunks before the trailing pair stand for
C23_Before == Len(C20_Expected(SubSeq(hunks, 1, Len(hunks) - 2), 1, 1, 1))

\* C23 as stated: both hunks of a trailing pair are dropped from the hunks,
\* and no record after those of the hunks before the pair is a `removed`
\* or an `added` record
C23_PairDropped ==
    (Prepared /\ C23_TrailingPair) =>
       /\ changes = SubSeq(hunks, 1, Len(hunks) - 2)
       /\ Done => \A i \in 2..Len(built) :
                     (i - 1) > C23_Before => built[i].type \notin {"removed", "added"}

\* C23, amended: the removed hunk of a trailing pair is dropped from the
\* hunks and the added hunk stays; the records after those of the hunks
\* before the pair are the `added` records of the added hunk, one for each
\* of its lines, the last of them retyped `current`, and then `upcoming`
\* records: none is a `removed` record
C23_RemovedOfPairDropped ==
    (Prepared /\ C23_TrailingPair) =>
       LET n == Len(hunks)
           k == hunks[n].count
           E == C20_Expected(SubSeq(hunks, 1, n - 2) \o <<hunks[n]>>, 1, 1, 1)
       IN  /\ changes = SubSeq(hunks, 1, n - 2) \o <<hunks[n]>>
           /\ Done =>
                 /\ Len(E) = C23_Before + k
                 /\ Len(built) > Len(E)
                 /\ \A i \in 1..(Len(E) - 1) : Shape(built[i + 1]) = E[i]
                 /\ built[Len(E) + 1].type = "current"
                 /\ built[Len(E) + 1].newLineNumber = E[Len(E)].newLineNumber
                 /\ \A i \in (Len(E) + 2)..Len(built) : built[i].type = "upcoming"

\* an unchanged line, then a trailing pair whose added hunk has two lines
C23_Witness ==
    /\ Done /\ C23_TrailingPair
    /\ Len(hunks) = 3
    /\ hunks[3].count = 2
    /\ built[2].type = "default"
    /\ built[3].type = "added"
    /\ built[4].type = "current"

----------------------------------------------------------------------------
(* C24 *)

\* the hunks the line diff returned end with a removed hunk followed by an
\* added hunk, in streaming mode
C24_Pair ==
    /\ isStreaming
    /\ Len(hunks) >= 2
    /\ hunks[Len(hunks)].added
    /\ hunks[Len(hunks) - 1].removed

C24_Removed == hunks[Len(hunks) - 1].value

\* the text of the added hunk, its trailing newline ignored
C24_Added == StripNL(hunks[Len(hunks)].value)

\* the text s without its first line and the line break after it; s when
\* it has no line break
C24_AfterFirstLine(s) == Join(Tail(Split(s)))

\* the preview text is the text `first`, then the before lines set aside
C24_Preview(first) ==
    /\ Len(upcomingLines) >= 1
    /\ upcomingLines[1] = first
    /\ Tail(upcomingLines) = Slice(fromLines, fromLinesToDiff, Len(fromLines))

----------------------------------------------------------------------------
(* C25 *)

\* the hunks the line diff returned end with a removed hunk, in streaming
\* mode
C25_Lone ==
    /\ isStreaming
    /\ Len(hunks) >= 1
    /\ hunks[Len(hunks)].removed

\* C25: with streaming, a removed hunk that ends the hunks is dropped from
\* them and its whole text is put in front of the preview text, and in
\* diff mode the records are those of the hunks before it, the last one
\* retyped `current`, followed by `upcoming` records only: no `removed`
\* record stands for a line of the dropped hunk.  The hunks before the
\* last two are never touched; when the hunks end neither with a removed
\* hunk nor with a removed hunk followed by an added hunk, or when
\* streaming is off, the hunks are left as they are
C25_LoneRemoval ==
    Prepared =>
       LET n == Len(hunks)
       IN  /\ C25_Lone =>
               /\ changes = SubSeq(hunks, 1, n - 1)
               /\ C24_Preview(hunks[n].value)
               /\ (Done /\ isDiff) =>
                     LET E == C20_Expected(SubSeq(hunks, 1, n - 1), 1, 1, 1)
                     IN  /\ Len(E) >= 1 /\ Len(built) > Len(E)
                         /\ \A i \in 1..(Len(E) - 1) : Shape(built[i + 1]) = E[i]
                         /\ built[Len(E) + 1].type = "current"
                         /\ \A i \in (Len(E) + 2)..Len(built) :
                               built[i].type = "upcoming"
           /\ Len(changes) >= n - 2
           /\ \A k \in 1..(n - 2) : changes[k] = hunks[k]
           /\ (~C25_Lone /\ ~C24_Pair) => changes = hunks
           /\ ~isStreaming => upcomingLines = <<>>

\* an unchanged line, then a removed hunk of two lines that ends the hunks
C25_Witness ==
    /\ Done /\ isDiff /\ C25_Lone
    /\ Len(hunks) = 2
    /\ hunks[2].count = 2
    /\ ~hunks[1].added /\ ~hunks[1].removed
    /\ built[Len(built)].type = "current"

----------------------------------------------------------------------------
(* C26 *)

\* the number of lines of the preview text: those of the text of a
\* reclassified removed hunk, and the before lines set aside (the last
\* element of fromLines is the empty string after the final newline, not
\* a line)
C26_PreviewLines ==
    LET rest == Slice(fromLines, fromLinesToDiff, Len(fromLines))
        set == IF Len(rest) > 0 THEN Len(rest) - 1 ELSE 0
    IN  IF Len(upcomingLines) > Len(rest)
        THEN Len(LineTokens(upcomingLines[1])) + set
        ELSE set

\* the indices of the `upcoming` records
C26_Upcoming == {i \in 2..Len(built) : built[i].type = "upcoming"}

\* C26: in streaming diff mode there is one `upcoming` record for each
\* line of the preview text, and each record takes the old-line counter
\* and adds one to it
C26_UpcomingPerPreviewLine ==
    (Done /\ isStreaming /\ isDiff) =>
       /\ Cardinality(C26_Upcoming) = C26_PreviewLines
       /\ \A i \in C26_Upcoming :
             built[i].oldLineNumber = built[i - 1].oldLineNumber + 1
       /\ \E c \in 2..Len(built) :
             /\ built[c].type = "current"
             /\ oldLineNumber = built[c].oldLineNumber + 1 + Cardinality(C26_Upcoming)

----------------------------------------------------------------------------
(* C27 *)

\* the position of the `current` item among the items, 0 when there is none
C27_Current ==
    LET S == {k \in 1..Len(RealItems) : RealItems[k].type = "current"}
    IN  IF S = {} THEN 0 ELSE CHOOSE k \in S : TRUE

\* C27: in streaming diff mode the `current` item and the `upcoming` items
\* after it carry consecutive oldLineNumbers within 1..B; together with
\* the `default` and `removed` items before them they carry every number
\* of 1..B once; the text of an `upcoming` item is the before line of its
\* number
C27_PreviewNumbers ==
    (Done /\ isStreaming /\ isDiff) =>
       LET R == RealItems
           c == C27_Current
           B == Len(fromLines) - 1
           before == {k \in 1..(c - 1) : R[k].type \in {"default", "removed"}}
       IN  /\ c > 0
           /\ \A k \in (c + 1)..Len(R) :
                 /\ R[k].type = "upcoming"
                 /\ R[k].oldLineNumber = R[k - 1].oldLineNumber + 1
           /\ \A k \in c..Len(R) : R[k].oldLineNumber \in 1..B
           /\ {R[k].oldLineNumber : k \in before \cup (c..Len(R))} = 1..B
           /\ Cardinality(before \cup (c..Len(R))) = B
           /\ \A k \in (c + 1)..Len(R) :
                 /\ R[k].oldLineNumber \in 1..B
                 /\ TextOfLine(R[k]) = fromLines[R[k].oldLineNumber]

----------------------------------------------------------------------------
(* C28 *)

\* the line record r has a marked span
C28_HasMark(r) == \E k \in 1..Len(r.tokens) : r.tokens[k].marked

----------------------------------------------------------------------------
(* C29 *)

\* the line records of lineInfos in order, those a collapse record holds
\* in its place
RECURSIVE C29_Records(_, _)
C29_Records(arr, i) ==
    IF i > Len(arr) THEN <<>>
    ELSE (IF Len(arr[i].collapse) > 0 THEN arr[i].collapse ELSE <<arr[i]>>)
         \o C29_Records(arr, i + 1)

\* line idx (from 0) of the tokenization of text, nothing when there is
\* no such line
C29_TokenLine(text, idx) ==
    LET lines == Split(text)
    IN  IF idx >= 0 /\ idx < Len(lines) THEN LineTokensOf(lines[idx + 1], grain)
        ELSE <<>>

\* C29: when the call is done no error was raised and every line record
\* has the tokens of one line: a `removed` or `upcoming` record those of
\* line oldLineNumber - 1 of the before tokenization, any other record
\* those of line newLineNumber - 1 of the after tokenization, and a record
\* without such a line (the synthetic EOF record) no token
C29_TokenAssignment ==
    /\ pc # "threw"
    /\ Done =>
          LET R == C29_Records(lineInfos, 2)
          IN  \A k \in 1..Len(R) :
                 R[k].tokens =
                    IF R[k].type \in {"removed", "upcoming"}
                    THEN C29_TokenLine(IF isDiff THEN from ELSE to,
                                       R[k].oldLineNumber - 1)
                    ELSE C29_TokenLine(to, R[k].newLineNumber - 1)

----------------------------------------------------------------------------
(* C30 *)

\* the characters of the tokens of a line record, each with the rank of
\* its token, the colour of the token and whether its column is marked
RECURSIVE C30_Source(_, _, _, _)
C30_Source(tokens, marks, k, col) ==
    IF k > Len(tokens) THEN <<>>
    ELSE [c \in 1..Len(tokens[k].content) |->
             [ch |-> tokens[k].content[c], token |-> k,
              color |-> tokens[k].color, marked |-> (col + c - 1) \in marks]]
         \o C30_Source(tokens, marks, k + 1, col + Len(tokens[k].content))

\* the characters of the spans of a render line, each with the rank of its
\* span, the colour of the span and its `marked` flag
RECURSIVE C30_Spans(_, _)
C30_Spans(spans, j) ==
    IF j > Len(spans) THEN <<>>
    ELSE [c \in 1..Len(spans[j].content) |->
             [ch |-> spans[j].content[c], span |-> j,
              color |-> spans[j].color, marked |-> spans[j].marked]]
         \o C30_Spans(spans, j + 1)

\* the projection of the line record li is the render line r
C30_Projected(li, r) ==
    LET S == C30_Source(li.tokens, li.marks, 1, 0)
        P == C30_Spans(r.tokens, 1)
    IN  /\ \A j \in 1..Len(r.tokens) : Len(r.tokens[j].content) > 0
        /\ Len(P) = Len(S)
        /\ \A p \in 1..Len(P) :
              /\ P[p].ch = S[p].ch
              /\ P[p].color = S[p].color
              /\ P[p].marked = S[p].marked
        /\ \A p \in 1..(Len(P) - 1) :
              /\ P[p].span = P[p + 1].span => S[p].token = S[p + 1].token
              /\ (P[p].span # P[p + 1].span /\ S[p].token = S[p + 1].token)
                    => P[p].marked # P[p + 1].marked

\* the line records with marks: they are at the top level of lineInfos
C30_MarkedRecords ==
    {i \in 2..Len(lineInfos) : lineInfos[i].marks # {}}

\* the items of the line record li: the render lines of its type and line
\* numbers
C30_ItemsOf(li) ==
    {k \in 1..Len(items) : IsLine(items[k]) /\ Shape(items[k]) = Shape(li)}

\* C30: the spans of the render line of a marked line record are not
\* empty; each lies within one token, has the colour of that token and is
\* marked as a whole or not at all, as the columns of its characters are;
\* two spans next to each other within one token differ in their mark
C30_ProjectionHomogeneous ==
    Done =>
       \A i \in C30_MarkedRecords :
          /\ Cardinality(C30_ItemsOf(lineInfos[i])) = 1
          /\ \A k \in C30_ItemsOf(lineInfos[i]) : C30_Projected(lineInfos[i], items[k])

\* a marked line with a token of no character and a token that is cut
\* into an unmarked and a marked span
C30_Witness ==
    /\ Done
    /\ \E i \in C30_MarkedRecords :
          /\ \E k \in 1..Len(lineInfos[i].tokens) :
                Len(lineInfos[i].tokens[k].content) = 0
          /\ \E k \in C30_ItemsOf(lineInfos[i]) :
                \E j \in 1..(Len(items[k].tokens) - 1) :
                   /\ items[k].tokens[j].color = items[k].tokens[j + 1].color
                   /\ ~items[k].tokens[j].marked
                   /\ items[k].tokens[j + 1].marked

====
